---- MODULE Spec2Model ----
(***************************************************************************)
(* State-machine model of mc-proxy (zanz1n/mc-proxy): the connection       *)
(* pipeline of src/src/server.rs, the three cooperative proxy tasks of     *)
(* src/src/handler/proxy.rs and src/src/commands/handler.rs, the session   *)
(* codecs of src/src/state.rs and the framing codec and packet catalogs    *)
(* of src/minecraft-protocol.  Frames are sequences of bytes (0..255) and  *)
(* are decoded byte by byte, as the code decodes them.                     *)
(*                                                                         *)
(* Every .await of the source is a point at which the task may be          *)
(* suspended (tokio's cooperative budget can make any lock, socket or      *)
(* channel operation return Pending), so a handler is a sequence of steps  *)
(* with a program counter; awaits that cannot be observed by another task  *)
(* (the read of current_state() that only feeds a log line) are merged     *)
(* into the step that follows them.                                        *)
(***************************************************************************)
EXTENDS Integers, Sequences, FiniteSets, TLC

\* F applied to the value of e, the value computed once and then shared by
\* every use F makes of it: a `let x = e;` binding.
Bind(F(_), e) == CHOOSE r \in {F(x) : x \in {e}} : TRUE

\* ------------------------------------------------------------------ bounds

\* Frames a client may send while its connection is in the proxy loop.
MaxClientFrames == 2
\* Frames a backend may send to one proxied connection.
MaxServerFrames == 3

\* ------------------------------------------------------------- bytes

Pow2(n) == 2 ^ n

Seq0(s, from) == IF from > Len(s) THEN << >> ELSE SubSeq(s, from, Len(s))

RECURSIVE Flatten(_)
Flatten(ss) == IF ss = << >> THEN << >> ELSE Head(ss) \o Flatten(Tail(ss))

\* ------------------------------------------------------------- VarInt

\* decoder.rs read_signed_var_int!(i32, read_var_i32, 5) and its async twin
\* in tokio.rs: seven bits per byte, little-endian groups, the shift wraps
\* as overflowing_shl does on i32, the count is checked after the byte has
\* been consumed.  st is "ok", "eof" (short read) or "toolong".
var_int_shl(result, value, num_read) ==
    \* result |= value << (7 * num_read) on an i32: the fifth byte is shifted
    \* by 28, its bit 3 lands on the sign bit, bits 4..6 fall off.
    IF num_read < 4 THEN result + value * Pow2(7 * num_read)
    ELSE IF num_read = 4
    THEN IF (value \div 8) % 2 = 1
         THEN ((result + (value % 8) * Pow2(28)) - Pow2(30)) - Pow2(30)
         ELSE result + (value % 8) * Pow2(28)
    ELSE result

RECURSIVE read_var_i32_loop(_, _, _, _)
read_var_i32_loop(s, pos, num_read, result) ==
    IF pos > Len(s) THEN [st |-> "eof", v |-> 0, pos |-> pos]
    ELSE IF num_read + 1 > 5 THEN [st |-> "toolong", v |-> 0, pos |-> pos + 1]
    ELSE LET Step(res) == IF s[pos] < 128 THEN [st |-> "ok", v |-> res, pos |-> pos + 1]
                          ELSE read_var_i32_loop(s, pos + 1, num_read + 1, res)
         IN Step(var_int_shl(result, s[pos] % 128, num_read))

read_var_i32(s, pos) == read_var_i32_loop(s, pos, 0, 0)

\* encoder::var_int::encode of an i32 (the encoder module is not part of the
\* sources at hand; this is section 4.A of the specification): emit
\* (n & 0x7F) | 0x80 while unsigned-shifting n right by 7, the last byte
\* without the high bit.  A negative n has bit 31 set and takes five bytes.
RECURSIVE var_int_encode_u(_)
var_int_encode_u(u) ==
    IF u < 128 THEN << u >>
    ELSE << (u % 128) + 128 >> \o var_int_encode_u(u \div 128)

var_int_encode(n) ==
    IF n >= 0 THEN var_int_encode_u(n)
    ELSE LET Low(low) == << (low % 128) + 128, ((low \div 128) % 128) + 128,
                            ((low \div 16384) % 128) + 128,
                            ((low \div 2097152) % 128) + 128,
                            (n \div Pow2(28)) % 16 >>
         IN Low(n % Pow2(28))

\* ------------------------------------------------------------- field codec

FieldOk(v, pos) == [st |-> "ok", v |-> v, pos |-> pos]
FieldErr == [st |-> "err", v |-> 0, pos |-> 0]
FieldPanic == [st |-> "panic", v |-> 0, pos |-> 0]

\* Read::read_exact on the packet cursor.
read_exact(s, pos, n) ==
    IF pos + n - 1 <= Len(s)
    THEN FieldOk(SubSeq(s, pos, pos + n - 1), pos + n)
    ELSE FieldErr

\* String::from_utf8.  The frames of this model carry ASCII text only; a
\* byte with the high bit set stands for an invalid sequence.
Utf8Valid(bytes) == \A i \in 1..Len(bytes) : bytes[i] < 128

\* decoder.rs read_string: the length is cast to usize (a negative VarInt
\* becomes a huge length) and compared with max_length before the read.
read_string(s, pos, max_length) ==
    LET Text(b) == IF b.st # "ok" THEN FieldErr
                   ELSE IF Utf8Valid(b.v) THEN b ELSE FieldErr
        Sized(l) == IF l.st # "ok" THEN FieldErr
                    ELSE IF l.v < 0 \/ l.v > max_length THEN FieldErr
                    ELSE Bind(Text, read_exact(s, l.pos, l.v))
    IN Bind(Sized, read_var_i32(s, pos))

\* decoder.rs read_byte_array: vec![0; length as usize] before the read; a
\* negative length is a capacity overflow, which panics.
read_byte_array(s, pos) ==
    LET Sized(l) == IF l.st # "ok" THEN FieldErr
                    ELSE IF l.v < 0 THEN FieldPanic
                    ELSE read_exact(s, l.pos, l.v)
    IN Sized(read_var_i32(s, pos))

RECURSIVE BigEndian(_)
BigEndian(bytes) ==
    IF bytes = << >> THEN 0
    ELSE BigEndian(SubSeq(bytes, 1, Len(bytes) - 1)) * 256 + bytes[Len(bytes)]

read_uint(s, pos, n) ==
    LET Num(b) == IF b.st # "ok" THEN FieldErr ELSE FieldOk(BigEndian(b.v), b.pos)
    IN Num(read_exact(s, pos, n))

read_bool(s, pos) ==
    IF pos > Len(s) THEN FieldErr
    ELSE IF s[pos] = 0 THEN FieldOk(FALSE, pos + 1)
    ELSE IF s[pos] = 1 THEN FieldOk(TRUE, pos + 1)
    ELSE FieldErr

\* A VarInt-tagged enum with ordinals lo..hi (derive(Decoder) with
\* data_type(with = "var_int")); any other ordinal is UnknownEnumType.
read_enum(s, pos, lo, hi) ==
    LET Ordinal(l) == IF l.st # "ok" THEN FieldErr
                      ELSE IF l.v < lo \/ l.v > hi THEN FieldErr
                      ELSE FieldOk(l.v, l.pos)
    IN Ordinal(read_var_i32(s, pos))

\* decoder::bool_option::decode::<Uuid>.
read_opt_uuid(s, pos) ==
    LET Opt(b) == IF b.st # "ok" THEN FieldErr
                  ELSE IF b.v THEN read_exact(s, b.pos, 16)
                  ELSE FieldOk(<< >>, b.pos)
    IN Opt(read_bool(s, pos))

\* The NBT reader and the chat Message decoder are outside the sources at
\* hand (section 1 of the specification: a black-box decoder of a
\* self-delimited tree).  A compound tag starts with the tag id 0x0a; a chat
\* message is a string holding a JSON value.
read_compound_tag(s, pos) ==
    IF pos <= Len(s) /\ s[pos] = 10 THEN FieldOk(Seq0(s, pos), Len(s) + 1)
    ELSE FieldErr

read_message(s, pos) ==
    LET Json(t) == IF t.st # "ok" THEN FieldErr
                   ELSE IF t.v # << >> /\ t.v[1] \in {34, 123} THEN t ELSE FieldErr
    IN Json(read_string(s, pos, 32768))

\* decoder::bool_option::decode::<Message>.
read_opt_message(s, pos) ==
    LET Opt(b) == IF b.st # "ok" THEN FieldErr
                  ELSE IF b.v THEN read_message(s, b.pos)
                  ELSE FieldOk(<< >>, b.pos)
    IN Opt(read_bool(s, pos))

\* decoder::var_int::decode for a field marked data_type(with = "var_int").
read_var_int(s, pos) ==
    LET Value(l) == IF l.st # "ok" THEN FieldErr ELSE FieldOk(l.v, l.pos)
    IN Value(read_var_i32(s, pos))

\* One field of a derive(Decoder) struct.  kind[1] names the field codec,
\* kind[2] is its parameter (a string's max_length, an integer's width).
ReadField(kind, s, pos) ==
    CASE kind[1] = "var_int"    -> read_var_int(s, pos)
      [] kind[1] = "string"     -> read_string(s, pos, kind[2])
      [] kind[1] = "uint"       -> read_uint(s, pos, kind[2])
      [] kind[1] = "bool"       -> read_bool(s, pos)
      [] kind[1] = "uuid"       -> read_exact(s, pos, 16)
      [] kind[1] = "byte_array" -> read_byte_array(s, pos)
      [] kind[1] = "rest"       -> FieldOk(Seq0(s, pos), Len(s) + 1)
      [] kind[1] = "enum"       -> read_enum(s, pos, kind[2], kind[3])
      [] kind[1] = "opt_uuid"   -> read_opt_uuid(s, pos)
      [] kind[1] = "nbt"        -> read_compound_tag(s, pos)
      [] kind[1] = "message"    -> read_message(s, pos)
      [] kind[1] = "opt_message" -> read_opt_message(s, pos)
      [] OTHER                  -> FieldErr

\* derive(Decoder) on a struct: the fields in declaration order, the first
\* failure ends the decode.
RECURSIVE DecodeFields(_, _, _, _)
DecodeFields(layout, s, pos, acc) ==
    IF layout = << >> THEN [st |-> "ok", f |-> acc]
    ELSE LET Field(r) == IF r.st # "ok" THEN [st |-> r.st, f |-> << >>]
                         ELSE DecodeFields(Tail(layout), s, r.pos, Append(acc, r.v))
         IN Bind(Field, ReadField(Head(layout), s, pos))

\* ------------------------------------------------------------- packet catalog

STR == 32768
Unknown == [t |-> "Unknown", layout |-> << >>]
Entry(t, layout) == [t |-> t, layout |-> layout]

\* packet/handshake.rs EnumDecoder for HandshakeServerBoundPacket.
HandshakeServerBound(type_id) ==
    IF type_id = 0
    THEN Entry("Handshake", << <<"var_int">>, <<"string", 255>>, <<"uint", 2>>,
                               <<"enum", 1, 2>> >>)
    ELSE Unknown

\* packet/status.rs EnumDecoder for StatusServerBoundPacket.
StatusServerBound(type_id) ==
    CASE type_id = 0 -> Entry("StatusRequest", << >>)
      [] type_id = 1 -> Entry("PingRequest", << <<"uint", 8>> >>)
      [] OTHER -> Unknown

\* packet/status.rs EnumDecoder for StatusClientBoundPacket.
StatusClientBound(type_id) ==
    CASE type_id = 0 -> Entry("StatusResponse", << <<"message">> >>)
      [] type_id = 1 -> Entry("PingResponse", << <<"uint", 8>> >>)
      [] OTHER -> Unknown

\* packet/login.rs EnumDecoder for LoginServerBoundPacket.
LoginServerBound(type_id) ==
    CASE type_id = 0 -> Entry("LoginStart", << <<"string", STR>>, <<"uuid">> >>)
      [] type_id = 1 -> Entry("EncryptionResponse", << <<"byte_array">>, <<"byte_array">> >>)
      [] type_id = 2 -> Entry("LoginPluginResponse", << <<"var_int">>, <<"bool">>, <<"rest">> >>)
      [] type_id = 3 -> Entry("LoginAcknowledged", << >>)
      [] OTHER -> Unknown

\* packet/login.rs EnumDecoder for LoginClientBoundPacket.
LoginClientBound(type_id) ==
    CASE type_id = 0 -> Entry("LoginDisconnect", << <<"string", STR>> >>)
      [] type_id = 1 -> Entry("EncryptionRequest",
                              << <<"string", 20>>, <<"byte_array">>, <<"byte_array">> >>)
      [] type_id = 2 -> Entry("LoginSuccess", << <<"uuid">>, <<"string", 16>> >>)
      [] type_id = 3 -> Entry("SetCompression", << <<"var_int">> >>)
      [] type_id = 4 -> Entry("LoginPluginRequest",
                              << <<"var_int">>, <<"string", STR>>, <<"rest">> >>)
      [] OTHER -> Unknown

\* packet/configuration.rs EnumDecoder for ConfigServerBoundPacket.
ConfigServerBound(type_id) ==
    CASE type_id = 0 -> Entry("ClientInformation",
                              << <<"string", 16>>, <<"uint", 1>>, <<"enum", 0, 2>>, <<"bool">>,
                                 <<"uint", 1>>, <<"var_int">>, <<"bool">>, <<"bool">> >>)
      [] type_id = 1 -> Entry("ServerBoundPluginMessage", << <<"string", STR>>, <<"rest">> >>)
      [] type_id = 2 -> Entry("AcknowledgeFinishConfiguration", << >>)
      [] type_id = 3 -> Entry("ServerBoundKeepAlive", << <<"uint", 8>> >>)
      [] type_id = 4 -> Entry("Pong", << <<"uint", 4>> >>)
      [] type_id = 5 -> Entry("ResourcePackResponse", << <<"uuid">>, <<"enum", 0, 7>> >>)
      [] OTHER -> Unknown

\* packet/configuration.rs EnumDecoder for ConfigClientBoundPaket.
ConfigClientBound(type_id) ==
    CASE type_id = 0 -> Entry("ClientBoundPluginMessage", << <<"string", STR>>, <<"rest">> >>)
      [] type_id = 1 -> Entry("ConfigDisconnect", << <<"message">> >>)
      [] type_id = 2 -> Entry("FinishConfiguration", << >>)
      [] type_id = 3 -> Entry("ClientboundKeepAlive", << <<"uint", 8>> >>)
      [] type_id = 4 -> Entry("Ping", << <<"uint", 4>> >>)
      [] type_id = 5 -> Entry("RegistryData", << <<"nbt">> >>)
      [] type_id = 6 -> Entry("RemoveResourcePack", << <<"opt_uuid">> >>)
      [] type_id = 7 -> Entry("AddResourcePack",
                              << <<"uuid">>, <<"string", 32767>>, <<"string", 40>>, <<"bool">>,
                                 <<"opt_message">> >>)
      [] type_id = 8 -> Entry("FeatureFlags", << <<"rest">> >>)
      [] type_id = 9 -> Entry("UpdateTags", << <<"rest">> >>)
      [] OTHER -> Unknown

\* packet/game.rs EnumDecoder for GameServerBoundPacket: 0x10 is the plugin
\* message, every other id is Other{type_id} with the body left undecoded.
GameServerBound(type_id) ==
    IF type_id = 16
    THEN Entry("ServerBoundPluginMessage", << <<"string", STR>>, <<"rest">> >>)
    ELSE Entry("Other", << >>)

\* packet/game.rs EnumDecoder for GameClientBoundPacket: 0x18.
GameClientBound(type_id) ==
    IF type_id = 24
    THEN Entry("ClientBoundPluginMessage", << <<"string", STR>>, <<"rest">> >>)
    ELSE Entry("Other", << >>)

\* The catalog next_packet::<T> is instantiated with, by direction
\* ("client" = server-bound packets, "server" = client-bound packets) and
\* protocol state (codec/client.rs and codec/server.rs decode).
Catalog(dir, state, type_id) ==
    IF dir = "client"
    THEN CASE state = "Handshake"     -> HandshakeServerBound(type_id)
           [] state = "Status"        -> StatusServerBound(type_id)
           [] state = "Login"         -> LoginServerBound(type_id)
           [] state = "Configuration" -> ConfigServerBound(type_id)
           [] OTHER                   -> GameServerBound(type_id)
    ELSE CASE state = "Status"        -> StatusClientBound(type_id)
           [] state = "Login"         -> LoginClientBound(type_id)
           [] state = "Configuration" -> ConfigClientBound(type_id)
           [] OTHER                   -> GameClientBound(type_id)

NoPacket == [s |-> "None", t |-> "None", id |-> 0, f |-> << >>]

\* impl<T: EnumDecoder> Decoder for T (decoder.rs): the type id is a VarInt
\* that must fit a u8, then the catalog decodes the body.  st is "ok",
\* "err" or "panic"; a packet is its ClientPacket / ServerPacket variant s
\* (the state whose catalog decoded it), its name t, its type id and its
\* fields f in declaration order.
DecodePacket(dir, state, body) ==
    LET Fields(e, id, r) ==
            IF r.st # "ok" THEN [st |-> r.st, p |-> NoPacket]
            ELSE [st |-> "ok", p |-> [s |-> state, t |-> e.t, id |-> id.v, f |-> r.f]]
        Body(e, id) ==
            IF e.t = "Unknown" THEN [st |-> "err", p |-> NoPacket]
            ELSE Fields(e, id, DecodeFields(e.layout, body, id.pos, << >>))
        TypeId(id) ==
            IF id.st # "ok" \/ id.v < 0 \/ id.v > 255 THEN [st |-> "err", p |-> NoPacket]
            ELSE Body(Catalog(dir, state, id.v), id)
    IN Bind(TypeId, read_var_i32(body, 1))

\* ------------------------------------------------------------- framing codec

\* codec.rs MinecraftCodec after new(): no key (Option<CryptKey>, None is
\* written << >>), no compression (Option<usize>, None is written -1), empty
\* buffers.  staging_buf is empty between two calls of encode and is a local
\* of the encode operator below.  The proxy never calls enable_encryption.
MinecraftCodecNew ==
    [crypt_key |-> << >>, compression |-> -1, received_buf |-> << >>,
     compression_target |-> << >>]

\* codec.rs clone_with_settings: the key and the threshold, fresh buffers.
clone_with_settings(codec) ==
    [MinecraftCodecNew EXCEPT !.crypt_key = codec.crypt_key,
                              !.compression = codec.compression]

\* flate2's ZlibDecoder is a library outside the repository.  In this model
\* a zlib stream is the header byte 0x78 followed by the stored bytes; fewer
\* than two bytes are a truncated stream, which read_to_end reports as end
\* of data without an error; anything else is a corrupt stream.
Inflate(z) ==
    IF Len(z) < 2 THEN [ok |-> TRUE, out |-> << >>]
    ELSE IF z[1] = 120 THEN [ok |-> TRUE, out |-> Tail(z)]
    ELSE [ok |-> FALSE, out |-> << >>]

\* flate2's ZlibEncoder, the counterpart of Inflate in this model: the header
\* byte 0x78 and the stored bytes.
Deflate(s) == << 120 >> \o s

\* a ^ b on two bytes.
Xor8(a, b) ==
    LET Bit(i) == (((a \div Pow2(i)) + (b \div Pow2(i))) % 2) * Pow2(i)
    IN Bit(0) + Bit(1) + Bit(2) + Bit(3) + Bit(4) + Bit(5) + Bit(6) + Bit(7)

\* The aes and cfb8 crates are libraries outside the repository.  CFB8 keeps
\* a 16-byte shift register that starts as the IV; each byte is combined
\* with the first byte of the encrypted register, and the ciphertext byte
\* is shifted in.  The block cipher is stood for by a keyed mix of the
\* register, which is all the properties below rely on.
RECURSIVE Aes128Mix(_, _, _)
Aes128Mix(key, register, i) ==
    IF i > Len(register) THEN 0
    ELSE ((key[i] + i) * (register[i] + 1) + Aes128Mix(key, register, i + 1)) % 256

Aes128Block(key, register) == Aes128Mix(key, register, 1)

\* The register after the ciphertext bytes ct have been shifted in.
cfb8_shift(register, ct) ==
    SubSeq(register \o ct, Len(ct) + 1, Len(ct) + Len(register))

\* cfb8 Encryptor::encrypt on a cipher whose register is `register`: byte
\* after byte, here the first half and then the second half from the
\* register the first half leaves.
RECURSIVE cfb8_encrypt(_, _, _)
cfb8_encrypt(key, register, data) ==
    IF data = << >> THEN << >>
    ELSE IF Len(data) = 1 THEN << Xor8(data[1], Aes128Block(key, register)) >>
    ELSE LET half == Len(data) \div 2
             Rest(ct) == ct \o cfb8_encrypt(key, cfb8_shift(register, ct),
                                            SubSeq(data, half + 1, Len(data)))
         IN Rest(cfb8_encrypt(key, register, SubSeq(data, 1, half)))

\* cfb8 Decryptor::decrypt on a cipher whose register is `register`: the
\* register of byte i is made of the ciphertext bytes before it.
cfb8_decrypt(key, register, data) ==
    [i \in 1..Len(data) |->
        Xor8(data[i], Aes128Block(key, cfb8_shift(register, SubSeq(data, 1, i - 1))))]

\* codec.rs MinecraftCodec::accept: append to received_buf; with a key, the
\* appended bytes are decrypted in place by a Decryptor built in this call
\* from (key, key), the key being its own IV.
accept(codec, bytes) ==
    IF codec.crypt_key = << >> THEN [codec EXCEPT !.received_buf = @ \o bytes]
    ELSE [codec EXCEPT !.received_buf =
                           @ \o cfb8_decrypt(codec.crypt_key, codec.crypt_key, bytes)]

encode_uncompressed_Bare(staging_buf, output) == output \o staging_buf

\* codec.rs encode_uncompressed: VarInt(len(staging_buf)), then staging_buf.
encode_uncompressed(staging_buf, output) ==
    output \o var_int_encode(Len(staging_buf)) \o staging_buf

\* codec.rs data_compressed / data_uncompressed: (data_length, data).  The
\* ZlibEncoder appends to compression_target.
codec_data(codec, staging_buf, threshold) ==
    IF Len(staging_buf) >= threshold
    THEN [data_length |-> Len(staging_buf),
          data |-> codec.compression_target \o Deflate(staging_buf)]
    ELSE [data_length |-> 0, data |-> staging_buf]

\* codec.rs encode_compressed.  The first var_int encode of data_length is
\* given `output`, not the scratch cursor data_length_bytes, whose position
\* therefore stays 0: packet_length is len(data), and the output receives
\* VarInt(data_length), VarInt(packet_length), VarInt(data_length), data.
encode_compressed(codec, staging_buf, output, threshold) ==
    LET data_length_bytes_position == 0
        Put(d) == output \o var_int_encode(d.data_length)
                         \o var_int_encode(data_length_bytes_position + Len(d.data))
                         \o var_int_encode(d.data_length) \o d.data
    IN Put(codec_data(codec, staging_buf, threshold))

\* codec.rs MinecraftCodec::encode of a packet whose Encoder writes the
\* bytes `packet`: frame it onto output, then, with a key, encrypt the whole
\* of output in place with an Encryptor built in this call from (key, key);
\* staging_buf and compression_target are cleared.
encode(codec, packet, output) ==
    LET framed == IF codec.compression >= 0
                  THEN encode_compressed(codec, packet, output, codec.compression)
                  ELSE encode_uncompressed(packet, output)
    IN [codec |-> [codec EXCEPT !.compression_target =
                                    IF codec.compression >= 0 THEN << >> ELSE @],
        output |-> IF codec.crypt_key = << >> THEN framed
                   ELSE cfb8_encrypt(codec.crypt_key, codec.crypt_key, framed)]

split_off_All(buf, bytes_read) == << >>

\* codec.rs next_packet: self.received_buf = self.received_buf.split_off(bytes_read),
\* the bytes after the first bytes_read.
split_off(buf, bytes_read) == Seq0(buf, bytes_read + 1)

\* codec.rs MinecraftCodec::next_packet::<T>, T the catalog of (dir, state).
\* r is "ok" (Ok(Some)), "none" (Ok(None)), "err" or "panic".  On an error
\* the `?` returns before received_buf is advanced and before
\* compression_target is cleared.
next_packet(codec, dir, state) ==
    LET buf == codec.received_buf
        none == [r |-> "none", p |-> NoPacket, codec |-> codec]
        err == [r |-> "err", p |-> NoPacket, codec |-> codec]
        Decoded(decoded, target, bytes_read) ==
            LET Of(packet) ==
                    IF packet.st # "ok"
                    THEN [r |-> packet.st, p |-> NoPacket,
                          codec |-> [codec EXCEPT !.compression_target = target]]
                    ELSE [r |-> "ok", p |-> packet.p,
                          codec |-> [codec EXCEPT
                                        !.received_buf = split_off(buf, bytes_read),
                                        !.compression_target = << >>]]
            IN Bind(Of, decoded)
        Inflated(payload, data_length, inflated, bytes_read) ==
            IF ~inflated.ok THEN err
            ELSE Decoded(DecodePacket(dir, state, codec.compression_target \o inflated.out),
                         codec.compression_target \o inflated.out, bytes_read)
        Compressed(payload, data_length, bytes_read) ==
            IF data_length.st # "ok" THEN err
            ELSE IF data_length.v # 0
            THEN Inflated(payload, data_length, Inflate(Seq0(payload, data_length.pos)),
                          bytes_read)
            ELSE Decoded(DecodePacket(dir, state, Seq0(payload, data_length.pos)),
                         codec.compression_target, bytes_read)
        Framed(frame, bytes_read) ==
            LET Of(payload) ==
                    IF codec.compression < 0
                    THEN Decoded(DecodePacket(dir, state, payload),
                                 codec.compression_target, bytes_read)
                    ELSE Compressed(payload, read_var_i32(payload, 1), bytes_read)
            IN Bind(Of, frame)
        Length(length) ==
            IF length.st # "ok" THEN none
            ELSE IF length.v < 0 \/ Len(buf) - (length.pos - 1) < length.v THEN none
            ELSE Framed(SubSeq(buf, length.pos, length.pos - 1 + length.v),
                        length.v + (length.pos - 1))
    IN Bind(Length, read_var_i32(buf, 1))

\* codec/client.rs ClientPacketCodec::new and codec/server.rs
\* ServerPacketCodec::new: state Handshake and a fresh framing codec.
PacketCodecNew == [state |-> "Handshake", codec |-> MinecraftCodecNew]

\* codec/client.rs ClientPacketCodec::decode: accept, then next_packet with
\* the server-bound catalog of the current state.
ClientPacketCodec_decode(pc_, data) ==
    LET Result(n) == [r |-> n.r, p |-> n.p, codec |-> [pc_ EXCEPT !.codec = n.codec]]
        Accepted(codec) == Bind(Result, next_packet(codec, "client", pc_.state))
    IN Bind(Accepted, accept(pc_.codec, data))

\* codec/server.rs ServerPacketCodec::decode: accept, then
\* DataSentDuringHandshake in state Handshake, else next_packet with the
\* client-bound catalog of the current state.
ServerPacketCodec_decode(pc_, data) ==
    LET Result(n) == [r |-> n.r, p |-> n.p, codec |-> [pc_ EXCEPT !.codec = n.codec]]
        Accepted(codec) == Bind(Result, next_packet(codec, "server", pc_.state))
    IN IF pc_.state = "Handshake"
       THEN [r |-> "err", p |-> NoPacket,
             codec |-> [pc_ EXCEPT !.codec = accept(pc_.codec, data)]]
       ELSE Bind(Accepted, accept(pc_.codec, data))

\* codec set_state and set_compression (codec/client.rs, codec/server.rs).
codec_set_state(pc_, state) == [pc_ EXCEPT !.state = state]
codec_set_compression(pc_, threshold) == [pc_ EXCEPT !.codec.compression = threshold]

\* ------------------------------------------------------------- utils

\* utils/mod.rs read_packet on the bytes s the socket can deliver.  st is
\* "some", "none" (a length of zero or less), "err" (a length prefix longer
\* than five bytes) or "pending" (the bytes end before the frame does); n is
\* the number of bytes the call has consumed from the socket.  With
\* encode_length the frame is the length encoded anew, then the payload.
read_packet(s, encode_length) ==
    LET Frame(length) ==
            IF length.st = "eof" THEN [st |-> "pending", n |-> Len(s), frame |-> << >>]
            ELSE IF length.st = "toolong"
            THEN [st |-> "err", n |-> length.pos - 1, frame |-> << >>]
            ELSE IF length.v <= 0 THEN [st |-> "none", n |-> length.pos - 1, frame |-> << >>]
            ELSE IF Len(s) - (length.pos - 1) < length.v
            THEN [st |-> "pending", n |-> Len(s), frame |-> << >>]
            ELSE [st |-> "some", n |-> length.pos - 1 + length.v,
                  frame |-> IF encode_length
                            THEN var_int_encode(length.v)
                                 \o SubSeq(s, length.pos, length.pos + length.v - 1)
                            ELSE SubSeq(s, length.pos, length.pos + length.v - 1)]
    IN Frame(read_var_i32(s, 1))

\* The Encoder implementations (encoder.rs and the derive macro) are not
\* part of the sources at hand; section 4.B and 3 of the specification: a
\* string is its VarInt byte length and its bytes, a packet is its VarInt
\* type id and its fields in declaration order.
encode_string(bytes) == var_int_encode(Len(bytes)) \o bytes
encode_u16(n) == << n \div 256, n % 256 >>

\* utils/mod.rs encode_packet: the VarInt length of the encoded packet, then
\* the packet; no compression envelope, no encryption.
encode_packet(data) == var_int_encode(Len(data)) \o data

\* HandshakeServerBoundPacket::Handshake(handshake) as bytes.
encode_Handshake(h) ==
    var_int_encode(0) \o var_int_encode(h[1]) \o encode_string(h[2]) \o encode_u16(h[3])
        \o var_int_encode(h[4])

\* LoginServerBoundPacket::LoginStart(login_start) as bytes.
encode_LoginStart(l) == var_int_encode(0) \o encode_string(l[1]) \o l[2]

\* LoginClientBoundPacket::LoginDisconnect(LoginDisconnect { reason }).
encode_LoginDisconnect(reason) == var_int_encode(0) \o encode_string(reason)

\* GameServerBoundPacket::ServerBoundPluginMessage(PlayPluginMessage).
encode_ServerBoundPluginMessage(channel, data) ==
    var_int_encode(16) \o encode_string(channel) \o data

\* ------------------------------------------------------------- texts

\* "basileia:proxy" (handler/proxy.rs)
BASILEIA_PROXY == << 98, 97, 115, 105, 108, 101, 105, 97, 58, 112, 114, 111, 120, 121 >>
\* handler/login.rs PLAYER_EXISTS_MSG
PLAYER_EXISTS_MSG == << 123, 34, 116, 101, 120, 116, 34, 58, 34, 84, 104, 101, 114, 101, 32, 105, 115, 32, 97, 108, 114, 101, 97, 100, 121, 32, 97, 32, 108, 111, 103, 103, 101, 100, 32, 105, 110, 32, 112, 108, 97, 121, 101, 114, 32, 119, 105, 116, 104, 32, 116, 104, 105, 115, 32, 117, 115, 101, 114, 110, 97, 109, 101, 34, 125 >>
\* server.rs: the reason sent for a protocol version other than 765
VERSION_NOT_ACCEPTED_MSG == << 123, 34, 116, 101, 120, 116, 34, 58, 34, 89, 111, 117, 114, 32, 109, 105, 110, 101, 99, 114, 97, 102, 116, 32, 118, 101, 114, 115, 105, 111, 110, 32, 105, 115, 32, 110, 111, 116, 32, 97, 99, 99, 101, 112, 116, 101, 100, 34, 125 >>
\* handler/login.rs "Banned!" and "Banned! Reason: "
BANNED_MSG == << 66, 97, 110, 110, 101, 100, 33 >>
BANNED_REASON_PREFIX == << 66, 97, 110, 110, 101, 100, 33, 32, 82, 101, 97, 115, 111, 110, 58, 32 >>

\* ------------------------------------------------------------- state

Conns == {"c1", "c2"}

\* The remote address of a connection (listen_loop's accept).
Addr(c) == IF c = "c1" THEN "ip1" ELSE "ip2"

UuidOf(b) == [i \in 1..16 |-> b]
NameA == << 65 >>
NameB == << 66 >>

VARIABLES
    arrivals,        \* connections the listener has yet to accept
    online_players,  \* GlobalSharedState.online_players: username -> uuid
    ip_bans,         \* the ip_bans table: ip -> ban record
    user_bans,       \* the user_bans table: username -> ban record
    whitelist,       \* the whitelist table and the kv flag whitelist.enabled
    pc,              \* where handle_conn / handle_proxy of a connection is
    handshake,       \* the Handshake the connection decoded
    login_start,     \* the LoginStart the connection decoded
    client,          \* the client socket of a connection
    backend,         \* the backend socket of a connection
    client_codec,    \* ConnectionSharedState.client_codec
    server_codec,    \* ConnectionSharedState.server_codec
    login_info,      \* ConnectionSharedState.login_info
    request_ch,      \* mpsc::channel(3) of diverted command requests
    response_ch,     \* mpsc::channel(3) of command responses
    hclient,         \* the handle_client task
    hserver,         \* the handle_server task
    hcommand,        \* the proxy_command_events task
    hist             \* history of a connection, read by the properties only

vars == << arrivals, online_players, ip_bans, user_bans, whitelist, pc, handshake,
           login_start, client, backend, client_codec, server_codec, login_info,
           request_ch, response_ch, hclient, hserver, hcommand, hist >>

globals == << online_players, ip_bans, user_bans, whitelist >>
session == << client_codec, server_codec, login_info, request_ch, response_ch >>
tasks == << hclient, hserver, hcommand >>

\* server.rs: mpsc::channel(3)
ChannelCapacity == 3
\* server.rs check_protocol_version
ProtocolVersion == 765

NoBan == [present |-> FALSE, expiration |-> "none", reason |-> << >>, has_reason |-> FALSE]
Ban(expiration, has_reason, reason) ==
    [present |-> TRUE, expiration |-> expiration, reason |-> reason, has_reason |-> has_reason]
ReasonText == << 120 >>

NoResult == [r |-> "unset", p |-> NoPacket]

\* The client's socket and the client behind it: state is the protocol
\* state the client is in, made the one in which it produced the frame it
\* sent last.
ClientSocketNew == [inb |-> << >>, pend |-> << >>, eof |-> FALSE, up |-> TRUE, out |-> << >>,
                    sent |-> 0, state |-> "Login", made |-> "Login"]
BackendSocketNew == [open |-> "no", inb |-> << >>, eof |-> FALSE, up |-> TRUE, out |-> << >>,
                     sent |-> 0]
HClientNew == [pc |-> "select", vec |-> << >>, res |-> NoResult, read |-> << >>,
               msg |-> << >>]
HServerNew == [pc |-> "read", vec |-> << >>, res |-> NoResult]
HCommandNew == [pc |-> "recv", request |-> << >>, response |-> << >>]
HistNew == [cread |-> << >>, srd |-> 0, spop |-> 0, sfwd |-> {}, gates |-> << >>,
            facts |-> {}, div |-> << >>, handled |-> << >>, ins |-> {},
            sent |-> << >>, wire |-> 0, dec |-> << >>, chunks |-> 0]

InitConnections ==
    /\ pc = [c \in Conns |-> "none"]
    /\ handshake = [c \in Conns |-> << >>]
    /\ login_start = [c \in Conns |-> << >>]
    /\ client = [c \in Conns |-> ClientSocketNew]
    /\ backend = [c \in Conns |-> BackendSocketNew]
    /\ client_codec = [c \in Conns |-> PacketCodecNew]
    /\ server_codec = [c \in Conns |-> PacketCodecNew]
    /\ login_info = [c \in Conns |-> << >>]
    /\ request_ch = [c \in Conns |-> << >>]
    /\ response_ch = [c \in Conns |-> << >>]
    /\ hclient = [c \in Conns |-> HClientNew]
    /\ hserver = [c \in Conns |-> HServerNew]
    /\ hcommand = [c \in Conns |-> HCommandNew]
    /\ hist = [c \in Conns |-> HistNew]
    /\ online_players = << >>

\* The service started on a fresh database file (main.rs run_service:
\* touch_file, migrations): no ban, no whitelist row, no kv flag.  One
\* connection arrives.
Init ==
    /\ InitConnections
    /\ arrivals = {"c1"}
    /\ ip_bans = [ip \in {"ip1", "ip2"} |-> NoBan]
    /\ user_bans = [u \in {NameA, NameB} |-> NoBan]
    /\ whitelist = [enabled |-> "absent", users |-> {}]

Upd(f, c, v) == [f EXCEPT ![c] = v]

\* A ban row counts while it has no expiration or its expiration is still
\* ahead (user_bans.rs / ip_bans.rs is_banned: now > expiration).
ActiveBan(row) == row.present /\ row.expiration # "passed"

\* A faulty lookup, for comparison: no row is ever found.
is_banned_Blind(table, key, db, deleted) == [st |-> "ok", ban |-> NoBan, table |-> table]

\* [Ip|User]BansRepository::is_banned.  db is "ok" or "error" (the sqlx
\* query fails); deleted says whether the DELETE of an expired row took
\* effect (its error is only logged).
is_banned(table, key, db, deleted) ==
    LET row == table[key] IN
    IF db = "error" THEN [st |-> "err", ban |-> NoBan, table |-> table]
    ELSE IF row.present /\ row.expiration = "passed"
         THEN [st |-> "ok", ban |-> NoBan,
               table |-> IF deleted THEN [table EXCEPT ![key] = NoBan] ELSE table]
         ELSE [st |-> "ok", ban |-> row, table |-> table]

\* A faulty lookup, for comparison: nobody is ever online.
exists_online_player_Never(table, name) == FALSE

\* GlobalSharedState (state.rs)
exists_online_player(table, name) == name \in DOMAIN table
add_online_player(table, name, uuid) ==
    [n \in DOMAIN table \cup {name} |-> IF n = name THEN uuid ELSE table[n]]
remove_online_player(table, name) == [n \in DOMAIN table \ {name} |-> table[n]]

\* A faulty version gate, for comparison: every version is accepted.
check_protocol_version_Any(protocol_version) == TRUE

\* whitelist.rs is_enabled and is_whitelisted on the whitelist record.
is_enabled(w) == w.enabled = "true"
is_whitelisted(w, name) == name \in w.users

\* server.rs check_protocol_version
check_protocol_version(protocol_version) == protocol_version = ProtocolVersion

\* The frames a client puts on the wire before the proxy loop.
HandshakeFrame(pv, next) == encode_packet(encode_Handshake(<< pv, << 104 >>, 25565, next >>))
LoginStartFrame(name, b) == encode_packet(encode_LoginStart(<< name, UuidOf(b) >>))
StatusRequestFrame == << 1, 0 >>
PingRequestFrame == << 9, 1, 0, 0, 0, 0, 0, 0, 0, 42 >>
EmptyFrame == << 0 >>
TruncatedFrame == << 1, 0 >>
EncryptionResponseNegative == << 6, 1, 255, 255, 255, 255, 15 >>
LoginAcknowledgedFrame == << 1, 3 >>
AcknowledgeFinishConfigurationFrame == << 1, 2 >>

\* A frame shorter than the threshold in the compressed format: the length,
\* a data length of zero and the packet as it is.
EnvelopedFrame(frame) == var_int_encode(Len(Tail(frame)) + 1) \o << 0 >> \o Tail(frame)

\* The protocol state of the client after it has sent frame in state: it
\* leaves Login with LoginAcknowledged and Configuration with
\* AcknowledgeFinishConfiguration, the moves handle_client mirrors.
ClientNextState(state, frame) ==
    IF state = "Login"
       /\ frame \in {LoginAcknowledgedFrame, EnvelopedFrame(LoginAcknowledgedFrame)}
    THEN "Configuration"
    ELSE IF state = "Configuration"
            /\ frame \in {AcknowledgeFinishConfigurationFrame,
                          EnvelopedFrame(AcknowledgeFinishConfigurationFrame)}
    THEN "Play"
    ELSE state

\* What the backend puts on the wire.
LoginSuccessFrame(name, b) ==
    encode_packet(<< 2 >> \o UuidOf(b) \o encode_string(name))
SetCompressionFrame(threshold) == encode_packet(<< 3 >> \o var_int_encode(threshold))
FinishConfigurationFrame == << 1, 2 >>
ClientBoundPluginFrame(channel, data) ==
    encode_packet(<< 24 >> \o encode_string(channel) \o data)
\* The plugin messages of the other catalogs: Configuration client-bound
\* (0x00), Configuration server-bound (0x01), Play server-bound (0x10).
ClientBoundConfigPluginFrame(channel, data) ==
    encode_packet(<< 0 >> \o encode_string(channel) \o data)
ServerBoundConfigPluginFrame(channel, data) ==
    encode_packet(<< 1 >> \o encode_string(channel) \o data)
ServerBoundPlayPluginFrame(channel, data) ==
    encode_packet(<< 16 >> \o encode_string(channel) \o data)
OTHER_CHANNEL == << 120, 58, 121 >>

\* ----------------------------------------------------- the two peers

InLoop(c) == pc[c] \in {"status", "proxy"}

\* A socket shows its content to the program only when the program reads
\* it, so the peers act when the reader is back at its read: what arrives
\* while a frame is being handled is seen at the next read all the same.
ClientWaits(c) == pc[c] = "proxy" => hclient[c].pc = "select"
BackendWaits(c) == hserver[c].pc = "read"

\* The client writes one frame; its first k bytes arrive at once, the rest
\* with ClientDeliver.
ClientSend(c, frame, k) ==
    /\ pc[c] \in {"handshake", "status", "login_start", "proxy"}
    /\ ~client[c].eof
    /\ client[c].inb = << >>
    /\ client[c].pend = << >>
    /\ InLoop(c) => client[c].sent < MaxClientFrames
    /\ ClientWaits(c)
    /\ k \in 1..Len(frame)
    /\ client' = Upd(client, c, [client[c] EXCEPT
                     !.inb = SubSeq(frame, 1, k),
                     !.pend = Seq0(frame, k + 1),
                     !.sent = IF InLoop(c) THEN @ + 1 ELSE @,
                     !.made = IF pc[c] = "proxy" THEN client[c].state ELSE @,
                     !.state = IF pc[c] = "proxy" THEN ClientNextState(@, frame) ELSE @])
    /\ UNCHANGED << arrivals, globals, pc, handshake, login_start, backend, session,
                    tasks, hist >>

ClientDeliver(c) ==
    /\ client[c].pend # << >>
    /\ pc[c] \notin {"closed", "aborted"}
    /\ client' = Upd(client, c, [client[c] EXCEPT !.inb = @ \o client[c].pend,
                                                  !.pend = << >>])
    /\ UNCHANGED << arrivals, globals, pc, handshake, login_start, backend, session,
                    tasks, hist >>

\* The client shuts its sending side.
ClientClose(c) ==
    /\ pc[c] \in {"handshake", "status", "login_start", "proxy"}
    /\ ~client[c].eof
    /\ client[c].inb = << >>
    /\ client[c].pend = << >>
    /\ ClientWaits(c)
    /\ client' = Upd(client, c, [client[c] EXCEPT !.eof = TRUE])
    /\ UNCHANGED << arrivals, globals, pc, handshake, login_start, backend, session,
                    tasks, hist >>

\* The client's connection breaks: nothing more is read from it or written
\* to it.
ClientReset(c) ==
    /\ pc[c] \in {"handshake", "status", "login", "login_start", "exists_check",
                  "ban_check", "proxy"}
    /\ client[c].up
    /\ ~client[c].eof
    /\ client[c].inb = << >>
    /\ client[c].pend = << >>
    /\ ClientWaits(c)
    /\ client' = Upd(client, c, [client[c] EXCEPT !.up = FALSE, !.eof = TRUE])
    /\ UNCHANGED << arrivals, globals, pc, handshake, login_start, backend, session,
                    tasks, hist >>

\* The backend writes one frame.
BackendSend(c, frame) ==
    /\ pc[c] = "proxy"
    /\ ~backend[c].eof
    /\ backend[c].inb = << >>
    /\ backend[c].sent < MaxServerFrames
    /\ BackendWaits(c)
    /\ backend' = Upd(backend, c, [backend[c] EXCEPT !.inb = frame, !.sent = @ + 1])
    /\ UNCHANGED << arrivals, globals, pc, handshake, login_start, client, session,
                    tasks, hist >>

BackendClose(c) ==
    /\ pc[c] = "proxy"
    /\ ~backend[c].eof
    /\ backend[c].inb = << >>
    /\ BackendWaits(c)
    /\ backend' = Upd(backend, c, [backend[c] EXCEPT !.eof = TRUE])
    /\ UNCHANGED << arrivals, globals, pc, handshake, login_start, client, session,
                    tasks, hist >>

\* The backend's connection breaks.
BackendReset(c) ==
    /\ pc[c] \in {"forward_login", "proxy"}
    /\ backend[c].up
    /\ ~backend[c].eof
    /\ backend[c].inb = << >>
    /\ BackendWaits(c)
    /\ backend' = Upd(backend, c, [backend[c] EXCEPT !.up = FALSE, !.eof = TRUE])
    /\ UNCHANGED << arrivals, globals, pc, handshake, login_start, client, session,
                    tasks, hist >>

\* Time passes beyond every expiration date on record.
\* [Ip|User]BansRepository::add_ban.  The row is looked up with is_banned
\* (which may purge an expired row); a row found is updated when the
\* expiration or the reason differs (an expiration is now + duration, which
\* never equals the stored instant), else returned as it is; with no row
\* found one is inserted.  sql names the statement that wrote, dup says that
\* an INSERT met a row of the same key (an expired row whose DELETE failed).
add_ban_Keep(table, key, expiration, has_reason, reason, db, deleted) ==
    IF table[key].present
    THEN [st |-> "ok", ban |-> table[key], table |-> table, sql |-> "NONE", dup |-> FALSE]
    ELSE [st |-> "ok", ban |-> Ban(expiration, has_reason, reason),
          table |-> [table EXCEPT ![key] = Ban(expiration, has_reason, reason)],
          sql |-> "INSERT", dup |-> FALSE]

add_ban(table, key, expiration, has_reason, reason, db, deleted) ==
    LET exp == expiration
        Found(seen) ==
            IF seen.st = "err"
            THEN [st |-> "err", ban |-> NoBan, table |-> seen.table, sql |-> "NONE",
                  dup |-> FALSE]
            ELSE IF seen.ban.present
            THEN IF exp # seen.ban.expiration \/ exp # "none"
                    \/ seen.ban.has_reason # has_reason \/ seen.ban.reason # reason
                 THEN [st |-> "ok", ban |-> Ban(exp, has_reason, reason),
                       table |-> [seen.table EXCEPT ![key] = Ban(exp, has_reason, reason)],
                       sql |-> "UPDATE", dup |-> FALSE]
                 ELSE [st |-> "ok", ban |-> seen.ban, table |-> seen.table,
                       sql |-> "NONE", dup |-> FALSE]
            ELSE [st |-> "ok", ban |-> Ban(exp, has_reason, reason),
                  table |-> [seen.table EXCEPT ![key] = Ban(exp, has_reason, reason)],
                  sql |-> "INSERT", dup |-> seen.table[key].present]
    IN Found(is_banned(table, key, db, deleted))

\* [Ip|User]BansRepository::remove_ban: DELETE ... WHERE key RETURNING *,
\* whatever the expiration of the row.
remove_ban(table, key, db) ==
    IF db = "error" THEN [st |-> "err", ban |-> NoBan, table |-> table]
    ELSE [st |-> "ok", ban |-> table[key], table |-> [table EXCEPT ![key] = NoBan]]

\* [Ip|User]BansRepository::get_bans: SELECT * FROM the table, every row
\* whatever its expiration; the rows are given as (key, row) pairs.
get_bans(table, db) ==
    IF db = "error" THEN [st |-> "err", bans |-> {}, table |-> table]
    ELSE [st |-> "ok", table |-> table,
          bans |-> { << k, table[k] >> : k \in { x \in DOMAIN table : table[x].present } }]

ClockAdvance ==
    /\ (\E u \in DOMAIN user_bans : user_bans[u].expiration = "later")
          \/ (\E i \in DOMAIN ip_bans : ip_bans[i].expiration = "later")
    /\ user_bans' = [u \in DOMAIN user_bans |->
                       IF user_bans[u].expiration = "later"
                       THEN [user_bans[u] EXCEPT !.expiration = "passed"] ELSE user_bans[u]]
    /\ ip_bans' = [i \in DOMAIN ip_bans |->
                       IF ip_bans[i].expiration = "later"
                       THEN [ip_bans[i] EXCEPT !.expiration = "passed"] ELSE ip_bans[i]]
    /\ UNCHANGED << arrivals, online_players, whitelist, pc, handshake, login_start,
                    client, backend, session, tasks, hist >>

\* ------------------------------------------------- server.rs handle_conn

\* What a gate records for the properties: the gate passed, and facts of the
\* shared tables at the moment the gate looked.
Passed(c, gate) == [hist[c] EXCEPT !.gates = Append(@, gate)]
Noted(h, fact, holds) == IF holds THEN [h EXCEPT !.facts = @ \cup {fact}] ELSE h

\* A faulty refusal, for comparison: the connection is dropped without a word.
Disconnect_Silent(c, reason) == client[c]

\* write_packet of a LoginDisconnect to the client; on a socket that is down
\* the error is only logged.
Disconnect(c, reason) ==
    IF client[c].up THEN [client[c] EXCEPT !.out = Append(@, encode_packet(encode_LoginDisconnect(reason)))]
    ELSE client[c]

\* listen_loop: accept and spawn handle_conn.
Accept(c) ==
    /\ c \in arrivals
    /\ arrivals' = arrivals \ {c}
    /\ pc' = Upd(pc, c, "ip_check")
    /\ UNCHANGED << globals, handshake, login_start, client, backend, session, tasks,
                    hist >>

\* handle_conn: ip_bans.is_banned(address.ip()).
IpCheck(c, db, deleted) ==
    /\ pc[c] = "ip_check"
    /\ \E r \in {is_banned(ip_bans, Addr(c), db, deleted)} :
       /\ ip_bans' = r.table
       /\ pc' = Upd(pc, c, IF r.st = "ok" /\ ~r.ban.present THEN "handshake" ELSE "closed")
       /\ hist' = Upd(hist, c,
                      Noted(IF r.st = "ok" /\ ~r.ban.present THEN Passed(c, "ip") ELSE hist[c],
                            "ip_banned", ActiveBan(ip_bans[Addr(c)])))
    /\ UNCHANGED << arrivals, online_players, user_bans, whitelist, handshake, login_start,
                    client, backend, session, tasks >>

\* The frame read_packet hands a gate, once the socket has a whole frame or
\* has ended.
GateRead(c) ==
    LET AtEof(r) == IF r.st = "pending" /\ client[c].eof THEN [r EXCEPT !.st = "err"] ELSE r
    IN AtEof(read_packet(client[c].inb, FALSE))

Consumed(c, n) == [client[c] EXCEPT !.inb = Seq0(@, n + 1)]

\* handle_handshake, and the match on next_state.
HandleHandshake(c) ==
    /\ pc[c] = "handshake"
    /\ \E r \in {GateRead(c)} : \E d \in {DecodePacket("client", "Handshake", r.frame)} :
       \E ok \in {r.st = "some" /\ d.st = "ok"} :
       /\ r.st # "pending"
       /\ client' = Upd(client, c, Consumed(c, r.n))
       /\ handshake' = Upd(handshake, c, IF ok THEN d.p.f ELSE << >>)
       /\ pc' = Upd(pc, c, IF ~ok THEN "closed"
                           ELSE IF d.p.f[4] = 1 THEN "status" ELSE "login")
       /\ hist' = Upd(hist, c, IF ok THEN Passed(c, "handshake") ELSE hist[c])
    /\ UNCHANGED << arrivals, globals, login_start, backend, session, tasks >>

\* value.try_into().unwrap() into a u32 field of ServerVersion or
\* OnlinePlayers: a value out of range panics.  An i32 and a table of the
\* sizes met here are never above the range, so only a negative value is.
try_into_u32(value) ==
    IF value >= 0 THEN [ok |-> TRUE, v |-> value] ELSE [ok |-> FALSE, v |-> 0]

\* The orders in which online_players.iter() may visit the entries.
HashMapIter(table) ==
    { order \in [1..Cardinality(DOMAIN table) -> DOMAIN table] :
        \A i, j \in DOMAIN order : i # j => order[i] # order[j] }

\* online_sample: one OnlinePlayer { id, name } per entry visited.
OnlineSample(table, order) ==
    [i \in DOMAIN order |-> [id |-> table[order[i]], name |-> order[i]]]

\* The stand-in for the serde_json text of ServerStatus (the description and
\* the version name left out): { protocol , max , online , sample }, a
\* number taking one place and each player of the sample written { id , name }.
ServerStatusJson(protocol, max, online, sample) ==
    << 123, protocol, 44, max, 44, online, 44, 91 >>
        \o Flatten([i \in DOMAIN sample |->
                      << 123 >> \o sample[i].id \o << 44 >> \o sample[i].name \o << 125 >>])
        \o << 93, 125 >>

\* StatusClientBoundPacket::StatusResponse as bytes: packet id 0, the JSON as
\* a string; players.max is 0.
StatusResponseBody(protocol, online, sample) ==
    << 0 >> \o encode_string(ServerStatusJson(protocol, 0, online, sample))

\* handle_status: one turn of its loop.  A StatusRequest is answered from the
\* online-player table as it is read under its lock; a PingRequest is echoed
\* and ends the loop.
HandleStatus(c) ==
    /\ pc[c] = "status"
    /\ \E r \in {GateRead(c)} : \E d \in {DecodePacket("client", "Status", r.frame)} :
       \E ok \in {r.st = "some" /\ d.st = "ok"} :
       \E request \in {ok /\ d.p.t = "StatusRequest"} :
       \E online \in {try_into_u32(Cardinality(DOMAIN online_players))} :
       \E protocol \in {try_into_u32(handshake[c][1])} :
       \E panic \in {request /\ (~online.ok \/ ~protocol.ok)} :
       \E order \in HashMapIter(online_players) :
       /\ r.st # "pending"
       /\ client' = Upd(client, c,
             IF ok /\ ~panic /\ client[c].up
             THEN [Consumed(c, r.n) EXCEPT !.out = Append(@, encode_packet(
                      IF request
                      THEN StatusResponseBody(protocol.v, online.v,
                                              OnlineSample(online_players, order))
                      ELSE << 1 >> \o SubSeq(r.frame, 2, 9)))]
             ELSE Consumed(c, r.n))
       /\ pc' = Upd(pc, c, IF panic THEN "aborted"
                           ELSE IF request /\ client[c].up THEN "status"
                           ELSE "closed")
    /\ UNCHANGED << arrivals, globals, handshake, login_start, backend, session, tasks,
                    hist >>

\* handle_conn, NextState::Login: check_protocol_version.
CheckVersion(c) ==
    /\ pc[c] = "login"
    /\ IF check_protocol_version(handshake[c][1])
       THEN /\ pc' = Upd(pc, c, "login_start")
            /\ hist' = Upd(hist, c, Passed(c, "version"))
            /\ UNCHANGED client
       ELSE /\ pc' = Upd(pc, c, "closed")
            /\ client' = Upd(client, c, Disconnect(c, VERSION_NOT_ACCEPTED_MSG))
            /\ UNCHANGED hist
    /\ UNCHANGED << arrivals, globals, handshake, login_start, backend, session, tasks >>

\* handle_login_start up to the first await after the read: read_packet and
\* LoginServerBoundPacket::decode.  A panic of the decoder kills the task.
ReadLoginStart(c) ==
    /\ pc[c] = "login_start"
    /\ \E r \in {GateRead(c)} : \E d \in {DecodePacket("client", "Login", r.frame)} :
       \E ok \in {r.st = "some" /\ d.st = "ok" /\ d.p.t = "LoginStart"} :
       /\ r.st # "pending"
       /\ client' = Upd(client, c, Consumed(c, r.n))
       /\ login_start' = Upd(login_start, c, IF ok THEN d.p.f ELSE << >>)
       /\ pc' = Upd(pc, c, IF ok THEN "exists_check"
                           ELSE IF r.st = "some" /\ d.st = "panic" THEN "aborted"
                           ELSE "closed")
       /\ hist' = Upd(hist, c, IF ok THEN Passed(c, "login_start") ELSE hist[c])
    /\ UNCHANGED << arrivals, globals, handshake, backend, session, tasks >>

\* handle_login_start: exists_online_player and the PLAYER_EXISTS_MSG branch.
ExistsCheck(c) ==
    /\ pc[c] = "exists_check"
    /\ \E name \in {login_start[c][1]} :
       \E exists \in {exists_online_player(online_players, name)} :
       \E h \in {Noted(Noted(hist[c], "online", name \in DOMAIN online_players),
                       "not_whitelisted",
                       is_enabled(whitelist) /\ ~is_whitelisted(whitelist, name))} :
       IF exists
       THEN /\ pc' = Upd(pc, c, "closed")
            /\ client' = Upd(client, c, Disconnect(c, PLAYER_EXISTS_MSG))
            /\ hist' = Upd(hist, c, h)
       ELSE /\ pc' = Upd(pc, c, "ban_check")
            /\ hist' = Upd(hist, c, [h EXCEPT !.gates = Append(@, "online")])
            /\ UNCHANGED client
    /\ UNCHANGED << arrivals, globals, handshake, login_start, backend, session, tasks >>

\* A faulty text, for comparison: the reason on record is left out.
ban_reason_Plain(ban) == BANNED_MSG

\* handle_login_start: the reason of the LoginDisconnect for a ban,
\* format!("Banned! Reason: {reason}") or "Banned!".
ban_reason(ban) ==
    IF ban.has_reason THEN BANNED_REASON_PREFIX \o ban.reason ELSE BANNED_MSG

\* handle_login_start: user_bans.is_banned and the Banned! branch.
BanCheck(c, db, deleted) ==
    /\ pc[c] = "ban_check"
    /\ \E name \in {login_start[c][1]} :
       \E r \in {is_banned(user_bans, name, db, deleted)} :
       \E pass \in {r.st = "ok" /\ ~r.ban.present} :
       \E reason \in {ban_reason(r.ban)} :
       /\ user_bans' = r.table
       /\ pc' = Upd(pc, c, IF pass THEN "connect" ELSE "closed")
       /\ client' = Upd(client, c, IF r.st = "ok" /\ r.ban.present
                                   THEN Disconnect(c, reason) ELSE client[c])
       /\ hist' = Upd(hist, c, Noted(Noted(IF pass THEN Passed(c, "ban") ELSE hist[c],
                                           "user_banned", ActiveBan(user_bans[name])),
                                     "user_bans_failed", r.st = "err"))
    /\ UNCHANGED << arrivals, online_players, ip_bans, whitelist, handshake, login_start,
                    backend, session, tasks >>

\* ------------------------------------------------ server.rs handle_proxy

\* A faulty write, for comparison: the frame's bytes are lost.
Written_Empty(tag, bytes) == [tag |-> tag, bytes |-> << >>]

\* What a successful write leaves on the backend socket.
Written(tag, bytes) == [tag |-> tag, bytes |-> bytes]

\* connect_to_server: reachable says whether the backend accepted.
Connect(c, reachable) ==
    /\ pc[c] = "connect"
    /\ pc' = Upd(pc, c, IF reachable THEN "forward_login" ELSE "closed")
    /\ backend' = Upd(backend, c, [backend[c] EXCEPT
                      !.open = IF reachable THEN "open" ELSE "failed"])
    /\ UNCHANGED << arrivals, globals, handshake, login_start, client, session, tasks,
                    hist >>

\* A faulty order, for comparison: LoginStart is written before the Handshake.
login_writes_Swapped(handshake_data, login_start_data) ==
    << Written("login", encode_packet(encode_LoginStart(login_start_data))),
       Written("login", encode_packet(encode_Handshake(handshake_data))) >>

\* The two write_packet calls that open the backend connection: the
\* Handshake, then the LoginStart.
login_writes(handshake_data, login_start_data) ==
    << Written("login", encode_packet(encode_Handshake(handshake_data))),
       Written("login", encode_packet(encode_LoginStart(login_start_data))) >>

\* handle_proxy from the two write_packet calls to the select!: both writes
\* are attempted, a failure ends the connection; otherwise the codecs are
\* built and moved to Login, and the two channels are created.
ForwardLogin(c) ==
    /\ pc[c] = "forward_login"
    /\ backend' = Upd(backend, c,
          IF backend[c].up
          THEN [backend[c] EXCEPT !.out = @ \o login_writes(handshake[c], login_start[c])]
          ELSE backend[c])
    /\ pc' = Upd(pc, c, IF backend[c].up THEN "proxy" ELSE "closed")
    /\ client_codec' = Upd(client_codec, c, codec_set_state(PacketCodecNew, "Login"))
    /\ server_codec' = Upd(server_codec, c, codec_set_state(PacketCodecNew, "Login"))
    /\ login_info' = Upd(login_info, c, << >>)
    /\ request_ch' = Upd(request_ch, c, << >>)
    /\ response_ch' = Upd(response_ch, c, << >>)
    /\ hclient' = Upd(hclient, c, HClientNew)
    /\ hserver' = Upd(hserver, c, HServerNew)
    /\ hcommand' = Upd(hcommand, c, HCommandNew)
    /\ UNCHANGED << arrivals, globals, handshake, login_start, client, hist >>

\* handle_proxy after the select!: login_username, remove_online_player.
Teardown(c) ==
    /\ pc[c] = "teardown"
    /\ online_players' = IF login_info[c] # << >>
                         THEN remove_online_player(online_players, login_info[c][1])
                         ELSE online_players
    /\ pc' = Upd(pc, c, "closed")
    /\ UNCHANGED << arrivals, ip_bans, user_bans, whitelist, handshake, login_start,
                    client, backend, session, tasks, hist >>

\* A faulty channel, for comparison: the message is lost.
mpsc_send_Drop(queue, value) == queue

\* A faulty channel, for comparison: the newest message overtakes the others.
mpsc_send_Front(queue, value) == << value >> \o queue

\* mpsc::Sender::send on one of the two channels of handle_proxy: the
\* message joins the queue behind those already sent.
mpsc_send(queue, value) == Append(queue, value)

\* Faulty tasks, for comparison: they run on after the select! has returned.
select_pending_Detached(c) == pc[c] \in {"proxy", "teardown"}

\* The select! of handle_proxy is still polling its three futures: none has
\* completed.  Once one completes the other two are dropped where they stand.
select_pending(c) == pc[c] = "proxy"

\* ------------------------------------------- proxy.rs handle_client

\* The read_packet branch of the select! is polled: it takes what the socket
\* holds.  An incomplete frame stays in the read future (hclient.read).
ClientPollRead(c) ==
    /\ select_pending(c)
    /\ hclient[c].pc = "select"
    /\ client[c].inb # << >> \/ client[c].eof
    /\ \E all \in {hclient[c].read \o client[c].inb} :
       \E r \in {read_packet(all, TRUE)} :
       \E st \in {IF r.st = "pending" /\ client[c].eof THEN "err" ELSE r.st} :
       \E taken \in {IF st = "pending" THEN Len(client[c].inb)
                      ELSE r.n - Len(hclient[c].read)} :
       /\ client' = Upd(client, c, Consumed(c, taken))
       /\ hist' = Upd(hist, c, [hist[c] EXCEPT
                        !.cread = @ \o SubSeq(client[c].inb, 1, taken)])
       /\ hclient' = Upd(hclient, c, [hclient[c] EXCEPT
                        !.read = IF st = "pending" THEN all ELSE << >>,
                        !.vec = IF st = "some" THEN r.frame ELSE @,
                        !.pc = IF st = "some" THEN "decode" ELSE @])
       /\ pc' = Upd(pc, c, IF st \in {"none", "err"} THEN "teardown" ELSE "proxy")
    /\ UNCHANGED << arrivals, globals, handshake, login_start, backend, session, hserver,
                    hcommand >>

\* The recv branch of the select! completes: the read_packet future of this
\* turn is dropped with whatever it had taken off the socket.
ClientRecvResponse(c) ==
    /\ select_pending(c)
    /\ hclient[c].pc = "select"
    /\ response_ch[c] # << >>
    /\ hclient' = Upd(hclient, c, [hclient[c] EXCEPT !.msg = Head(response_ch[c]),
                                                     !.read = << >>,
                                                     !.pc = "inject"])
    /\ response_ch' = Upd(response_ch, c, Tail(response_ch[c]))
    /\ UNCHANGED << arrivals, globals, pc, handshake, login_start, client, backend,
                    client_codec, server_codec, login_info, request_ch, hserver, hcommand,
                    hist >>

\* write_packet of the command response to the backend; a failure is logged.
ClientInject(c) ==
    /\ select_pending(c)
    /\ hclient[c].pc = "inject"
    /\ backend' = Upd(backend, c,
          IF backend[c].up
          THEN [backend[c] EXCEPT !.out = Append(@, Written("inject",
                   encode_packet(encode_ServerBoundPluginMessage(BASILEIA_PROXY,
                                                                 hclient[c].msg))))]
          ELSE backend[c])
    /\ hclient' = Upd(hclient, c, [hclient[c] EXCEPT !.pc = "select"])
    /\ UNCHANGED << arrivals, globals, pc, handshake, login_start, client, session,
                    hserver, hcommand, hist >>

\* state.decode_client(&vec)
ClientDecode(c) ==
    /\ select_pending(c)
    /\ hclient[c].pc = "decode"
    /\ \E d \in {ClientPacketCodec_decode(client_codec[c], hclient[c].vec)} :
       /\ client_codec' = Upd(client_codec, c, d.codec)
       /\ hclient' = Upd(hclient, c, [hclient[c] EXCEPT !.res = [r |-> d.r, p |-> d.p],
                                                        !.pc = "match"])
       /\ pc' = Upd(pc, c, IF d.r = "panic" THEN "aborted" ELSE "proxy")
    /\ UNCHANGED << arrivals, globals, handshake, login_start, client, backend,
                    server_codec, login_info, request_ch, response_ch, hserver, hcommand,
                    hist >>

\* A faulty match, for comparison: LoginAcknowledged enters Play at once.
ClientTarget_Skip(res) ==
    IF res.r = "ok" /\ res.p.t \in {"LoginAcknowledged", "AcknowledgeFinishConfiguration"}
    THEN "Play" ELSE ""

\* A faulty match, for comparison: every decoded client packet enters Play.
ClientTarget_Play(res) == IF res.r = "ok" THEN "Play" ELSE ""

\* The state a decoded client packet moves the connection to, or "" for none.
ClientTarget(res) ==
    IF res.r = "ok" /\ res.p.s = "Login" /\ res.p.t = "LoginAcknowledged"
    THEN "Configuration"
    ELSE IF res.r = "ok" /\ res.p.s = "Configuration"
            /\ res.p.t = "AcknowledgeFinishConfiguration"
         THEN "Play"
         ELSE ""

\* current_state, the match on the packet, and the first half of set_state.
ClientMatch(c) ==
    /\ select_pending(c)
    /\ hclient[c].pc = "match"
    /\ \E target \in {ClientTarget(hclient[c].res)} :
       /\ client_codec' = Upd(client_codec, c,
                              IF target # "" THEN codec_set_state(client_codec[c], target)
                              ELSE client_codec[c])
       /\ hclient' = Upd(hclient, c, [hclient[c] EXCEPT
                         !.pc = IF target # "" THEN "set_state" ELSE "forward"])
    /\ UNCHANGED << arrivals, globals, pc, handshake, login_start, client, backend,
                    server_codec, login_info, request_ch, response_ch, hserver, hcommand,
                    hist >>

\* The second half of set_state: server_codec.
ClientSetState(c) ==
    /\ select_pending(c)
    /\ hclient[c].pc = "set_state"
    /\ server_codec' = Upd(server_codec, c,
                           codec_set_state(server_codec[c], ClientTarget(hclient[c].res)))
    /\ hclient' = Upd(hclient, c, [hclient[c] EXCEPT !.pc = "forward"])
    /\ UNCHANGED << arrivals, globals, pc, handshake, login_start, client, backend,
                    client_codec, login_info, request_ch, response_ch, hserver, hcommand,
                    hist >>

\* srv_write.write_all(&vec)
ClientForward(c) ==
    /\ select_pending(c)
    /\ hclient[c].pc = "forward"
    /\ backend' = Upd(backend, c,
                      IF backend[c].up
                      THEN [backend[c] EXCEPT !.out = Append(@, Written("relay", hclient[c].vec))]
                      ELSE backend[c])
    /\ hclient' = Upd(hclient, c, [hclient[c] EXCEPT !.pc = "select"])
    /\ pc' = Upd(pc, c, IF backend[c].up THEN "proxy" ELSE "teardown")
    /\ UNCHANGED << arrivals, globals, handshake, login_start, client, session, hserver,
                    hcommand, hist >>

\* ------------------------------------------- proxy.rs handle_server

\* read_packet(&mut srv_read, true)
ServerRead(c) ==
    /\ select_pending(c)
    /\ hserver[c].pc = "read"
    /\ backend[c].inb # << >> \/ backend[c].eof
    /\ \E r \in {read_packet(backend[c].inb, TRUE)} :
       \E st \in {IF r.st = "pending" THEN "err" ELSE r.st} :
       /\ r.st = "pending" => backend[c].eof
       /\ backend' = Upd(backend, c, [backend[c] EXCEPT !.inb = Seq0(@, r.n + 1)])
       /\ hserver' = Upd(hserver, c, [hserver[c] EXCEPT
                         !.vec = IF st = "some" THEN r.frame ELSE @,
                         !.pc = IF st = "some" THEN "decode" ELSE @])
       /\ hist' = Upd(hist, c, [hist[c] EXCEPT !.srd = IF st = "some" THEN @ + 1 ELSE @])
       /\ pc' = Upd(pc, c, IF st = "some" THEN "proxy" ELSE "teardown")
    /\ UNCHANGED << arrivals, globals, handshake, login_start, client, session, hclient,
                    hcommand >>

\* state.decode_server(&vec)
ServerDecode(c) ==
    /\ select_pending(c)
    /\ hserver[c].pc = "decode"
    /\ \E d \in {ServerPacketCodec_decode(server_codec[c], hserver[c].vec)} :
       /\ server_codec' = Upd(server_codec, c, d.codec)
       /\ hserver' = Upd(hserver, c, [hserver[c] EXCEPT !.res = [r |-> d.r, p |-> d.p],
                                                        !.pc = "match"])
       /\ hist' = Upd(hist, c, [hist[c] EXCEPT !.spop = IF d.r = "ok" THEN @ + 1 ELSE @])
       /\ pc' = Upd(pc, c, IF d.r = "panic" THEN "aborted" ELSE "proxy")
    /\ UNCHANGED << arrivals, globals, handshake, login_start, client, backend,
                    client_codec, login_info, request_ch, response_ch, hclient, hcommand >>

\* A faulty threshold test, for comparison: no threshold stops the relay.
negative_threshold_Never(threshold) == FALSE

\* handle_server, SetCompression arm: if 0 > packet.threshold { break; }
negative_threshold(threshold) == 0 > threshold

\* Which arm of handle_server's match a decode result takes.
ServerArm(res) ==
    IF res.r # "ok" THEN "other"
    ELSE IF res.p.s = "Login" /\ res.p.t = "LoginSuccess" THEN "LoginSuccess"
    ELSE IF res.p.s = "Login" /\ res.p.t = "SetCompression" THEN "SetCompression"
    ELSE IF res.p.s = "Configuration" /\ res.p.t = "FinishConfiguration"
         THEN "FinishConfiguration"
    ELSE IF res.p.s = "Play" /\ res.p.t = "ClientBoundPluginMessage"
         THEN "PluginMessage"
    ELSE "other"

\* current_state and the match on the packet, up to the next await of the
\* arm taken: the login_info write, the threshold test and the first half of
\* set_compression, the first half of set_state, the channel comparison.
ServerMatch(c) ==
    /\ select_pending(c)
    /\ hserver[c].pc = "match"
    /\ \E res \in {hserver[c].res} : \E arm \in {ServerArm(res)} :
       \E stop \in {arm = "SetCompression" /\ negative_threshold(res.p.f[1])} :
       \E next \in {CASE arm = "LoginSuccess" -> "add_online_player"
                       [] arm = "SetCompression" -> "set_compression"
                       [] arm = "FinishConfiguration" -> "set_state"
                       [] arm = "PluginMessage" /\ res.p.f[1] = BASILEIA_PROXY -> "send"
                       [] OTHER -> "forward"} :
       /\ login_info' = Upd(login_info, c,
                            IF arm = "LoginSuccess" THEN << res.p.f[2], res.p.f[1] >>
                            ELSE login_info[c])
       /\ client_codec' = Upd(client_codec, c,
             IF arm = "SetCompression" /\ ~stop
             THEN codec_set_compression(client_codec[c], res.p.f[1])
             ELSE IF arm = "FinishConfiguration" THEN codec_set_state(client_codec[c], "Play")
             ELSE client_codec[c])
       /\ hserver' = Upd(hserver, c, [hserver[c] EXCEPT !.pc = IF stop THEN @ ELSE next])
       /\ pc' = Upd(pc, c, IF stop THEN "teardown" ELSE "proxy")
    /\ UNCHANGED << arrivals, globals, handshake, login_start, client, backend,
                    server_codec, request_ch, response_ch, hclient, hcommand, hist >>

\* global_state.add_online_player(packet.username, packet.uuid)
ServerAddOnlinePlayer(c) ==
    /\ select_pending(c)
    /\ hserver[c].pc = "add_online_player"
    /\ online_players' = add_online_player(online_players, hserver[c].res.p.f[2],
                                           hserver[c].res.p.f[1])
    /\ hserver' = Upd(hserver, c, [hserver[c] EXCEPT !.pc = "forward"])
    /\ hist' = Upd(hist, c, [hist[c] EXCEPT
                     !.ins = @ \cup {<< hserver[c].res.p.f[2], hserver[c].res.p.f[1] >>}])
    /\ UNCHANGED << arrivals, ip_bans, user_bans, whitelist, pc, handshake, login_start,
                    client, backend, session, hclient, hcommand >>

\* The second half of set_compression: server_codec.
ServerSetCompression(c) ==
    /\ select_pending(c)
    /\ hserver[c].pc = "set_compression"
    /\ server_codec' = Upd(server_codec, c,
                           codec_set_compression(server_codec[c], hserver[c].res.p.f[1]))
    /\ hserver' = Upd(hserver, c, [hserver[c] EXCEPT !.pc = "forward"])
    /\ UNCHANGED << arrivals, globals, pc, handshake, login_start, client, backend,
                    client_codec, login_info, request_ch, response_ch, hclient, hcommand,
                    hist >>

\* The second half of set_state(Play): server_codec.
ServerSetState(c) ==
    /\ select_pending(c)
    /\ hserver[c].pc = "set_state"
    /\ server_codec' = Upd(server_codec, c, codec_set_state(server_codec[c], "Play"))
    /\ hserver' = Upd(hserver, c, [hserver[c] EXCEPT !.pc = "forward"])
    /\ UNCHANGED << arrivals, globals, pc, handshake, login_start, client, backend,
                    client_codec, login_info, request_ch, response_ch, hclient, hcommand,
                    hist >>

\* request_sender.send(plugin_message.data), then continue.
ServerSendRequest(c) ==
    /\ select_pending(c)
    /\ hserver[c].pc = "send"
    /\ Len(request_ch[c]) < ChannelCapacity
    /\ request_ch' = Upd(request_ch, c, mpsc_send(request_ch[c], hserver[c].res.p.f[2]))
    /\ hserver' = Upd(hserver, c, [hserver[c] EXCEPT !.pc = "read"])
    /\ hist' = Upd(hist, c, [hist[c] EXCEPT !.div = Append(@, hserver[c].res.p.f[2])])
    /\ UNCHANGED << arrivals, globals, pc, handshake, login_start, client, backend,
                    client_codec, server_codec, login_info, response_ch, hclient, hcommand >>

\* client_write.write_all(&vec)
ServerForward(c) ==
    /\ select_pending(c)
    /\ hserver[c].pc = "forward"
    /\ client' = Upd(client, c,
                     IF client[c].up THEN [client[c] EXCEPT !.out = Append(@, hserver[c].vec)]
                     ELSE client[c])
    /\ hist' = Upd(hist, c, [hist[c] EXCEPT
                     !.sfwd = IF client[c].up THEN @ \cup {hist[c].srd} ELSE @])
    /\ hserver' = Upd(hserver, c, [hserver[c] EXCEPT !.pc = "read"])
    /\ pc' = Upd(pc, c, IF client[c].up THEN "proxy" ELSE "teardown")
    /\ UNCHANGED << arrivals, globals, handshake, login_start, backend, session, hclient,
                    hcommand >>

\* ------------------------------ commands/handler.rs proxy_command_events

\* The stand-in for the JSON of a command (serde_json and the uuid crate are
\* libraries): a request is << id, type >> \o username with one byte for
\* the id, type 1 for IS_PLAYER_BANNED and a username of one byte; a blob of
\* any other shape (cut short, another type, one field too many) does not
\* deserialize.  A response is << id, 1, banned >> for SUCCESS and
\* << id, 2 >> \o text for ERROR, text the string form of the CommandError.
NilUuid == 0
COMMAND_DECODE_FAILED == << 1 >>
REPOSITORY_ERROR == << 2 >>
IsPlayerBannedRequest(id, name) == << id, 1 >> \o name

\* serde_json::from_slice::<CommandRequestMessage> (deny_unknown_fields).
parse_command(data) ==
    IF Len(data) = 3 /\ data[2] = 1
    THEN [ok |-> TRUE, id |-> data[1], username |-> << data[3] >>]
    ELSE [ok |-> FALSE, id |-> NilUuid, username |-> << >>]

CommandSuccess(id, body) == << id, 1 >> \o body
CommandErrorResponse(id, text) == << id, 2 >> \o text

\* A faulty handler, for comparison: every response carries the nil id.
handle_command_data_Nil(data, db, deleted) ==
    [response |-> CommandErrorResponse(NilUuid, COMMAND_DECODE_FAILED), user_bans |-> user_bans]

\* handle_command_data with handle_command's IsPlayerBanned arm; a username
\* without a row is not banned.
handle_command_data(data, db, deleted) ==
    LET Answer(req, r) ==
            [response |-> IF r.st = "err" THEN CommandErrorResponse(req.id, REPOSITORY_ERROR)
                          ELSE CommandSuccess(req.id, << IF r.ban.present THEN 1 ELSE 0 >>),
             user_bans |-> r.table]
        Query(req) ==
            IF req.username \in DOMAIN user_bans
            THEN Answer(req, is_banned(user_bans, req.username, db, deleted))
            ELSE Answer(req, [st |-> IF db = "error" THEN "err" ELSE "ok", ban |-> NoBan,
                              table |-> user_bans])
        Handle(req) ==
            IF req.ok THEN Query(req)
            ELSE [response |-> CommandErrorResponse(NilUuid, COMMAND_DECODE_FAILED),
                  user_bans |-> user_bans]
    IN Handle(parse_command(data))

\* request_recv.recv()
CommandRecv(c) ==
    /\ select_pending(c)
    /\ hcommand[c].pc = "recv"
    /\ request_ch[c] # << >>
    /\ hcommand' = Upd(hcommand, c, [hcommand[c] EXCEPT !.request = Head(request_ch[c]),
                                                        !.pc = "handle"])
    /\ request_ch' = Upd(request_ch, c, Tail(request_ch[c]))
    /\ UNCHANGED << arrivals, globals, pc, handshake, login_start, client, backend,
                    client_codec, server_codec, login_info, response_ch, hclient, hserver,
                    hist >>

\* handle_command_data(state, &request)
CommandHandle(c, db, deleted) ==
    /\ select_pending(c)
    /\ hcommand[c].pc = "handle"
    /\ \E r \in {handle_command_data(hcommand[c].request, db, deleted)} :
       /\ user_bans' = r.user_bans
       /\ hcommand' = Upd(hcommand, c, [hcommand[c] EXCEPT !.response = r.response,
                                                           !.pc = "send"])
       /\ hist' = Upd(hist, c, [hist[c] EXCEPT !.handled = Append(@,
                        [request |-> hcommand[c].request, response |-> r.response,
                         db |-> db])])
    /\ UNCHANGED << arrivals, online_players, ip_bans, whitelist, pc, handshake,
                    login_start, client, backend, session, hclient, hserver >>

\* response_sender.send(response)
CommandSend(c) ==
    /\ select_pending(c)
    /\ hcommand[c].pc = "send"
    /\ Len(response_ch[c]) < ChannelCapacity
    /\ response_ch' = Upd(response_ch, c, mpsc_send(response_ch[c], hcommand[c].response))
    /\ hcommand' = Upd(hcommand, c, [hcommand[c] EXCEPT !.pc = "recv"])
    /\ UNCHANGED << arrivals, globals, pc, handshake, login_start, client, backend,
                    client_codec, server_codec, login_info, request_ch, hclient, hserver,
                    hist >>

\* ------------------------------------------------------ specifications

HandshakeMenu == { HandshakeFrame(765, 2), HandshakeFrame(764, 2), HandshakeFrame(765, 1),
                   TruncatedFrame, EmptyFrame }
StatusMenu == { StatusRequestFrame, PingRequestFrame, << 1, 7 >> }
LoginStartMenu == { LoginStartFrame(NameA, 7), LoginAcknowledgedFrame, TruncatedFrame,
                    EncryptionResponseNegative }
ProxyClientMenu == { LoginAcknowledgedFrame, AcknowledgeFinishConfigurationFrame }
ProxyServerMenu == { LoginSuccessFrame(NameA, 7), SetCompressionFrame(1),
                     SetCompressionFrame(-1), FinishConfigurationFrame,
                     ClientBoundPluginFrame(BASILEIA_PROXY, IsPlayerBannedRequest(5, NameA)),
                     ClientBoundPluginFrame(OTHER_CHANNEL, << 1 >>) }

\* What the client of the main specification may send at each stage.
ClientMenu(c) ==
    CASE pc[c] = "handshake" -> HandshakeMenu
      [] pc[c] = "status" -> StatusMenu
      [] pc[c] = "login_start" -> LoginStartMenu
      [] OTHER -> ProxyClientMenu

\* Only in the proxy loop, where a read can be abandoned, does it matter
\* that a frame arrives in two pieces.
Splits(c, frame) == IF pc[c] = "proxy" THEN {1, Len(frame)} ELSE {Len(frame)}

Handlers(c) ==
    \/ Accept(c)
    \/ \E db \in {"ok", "error"}, deleted \in BOOLEAN : IpCheck(c, db, deleted)
    \/ HandleHandshake(c)
    \/ HandleStatus(c)
    \/ CheckVersion(c)
    \/ ReadLoginStart(c)
    \/ ExistsCheck(c)
    \/ \E db \in {"ok", "error"}, deleted \in BOOLEAN : BanCheck(c, db, deleted)
    \/ \E reachable \in BOOLEAN : Connect(c, reachable)
    \/ ForwardLogin(c)
    \/ Teardown(c)

Relayers(c) ==
    \/ ClientPollRead(c)
    \/ ClientRecvResponse(c)
    \/ ClientInject(c)
    \/ ClientDecode(c)
    \/ ClientMatch(c)
    \/ ClientSetState(c)
    \/ ClientForward(c)
    \/ ServerRead(c)
    \/ ServerDecode(c)
    \/ ServerMatch(c)
    \/ ServerAddOnlinePlayer(c)
    \/ ServerSetCompression(c)
    \/ ServerSetState(c)
    \/ ServerSendRequest(c)
    \/ ServerForward(c)
    \/ CommandRecv(c)
    \/ \E db \in {"ok", "error"}, deleted \in BOOLEAN : CommandHandle(c, db, deleted)
    \/ CommandSend(c)

Peers(c) ==
    \/ \E frame \in ClientMenu(c) : \E k \in Splits(c, frame) : ClientSend(c, frame, k)
    \/ ClientDeliver(c)
    \/ ClientClose(c)
    \/ ClientReset(c)
    \/ \E frame \in ProxyServerMenu : BackendSend(c, frame)
    \/ BackendClose(c)
    \/ BackendReset(c)

Next == \E c \in Conns : Handlers(c) \/ Relayers(c) \/ Peers(c)

Spec == Init /\ [][Next]_vars

\* The second specification: the service restarts on a database an earlier
\* run has filled, two connections arrive, and each backend answers a
\* login with LoginSuccess or by closing.  The clients send nothing once
\* they are logged in.
BanChoices == { Ban("none", TRUE, ReasonText), Ban("later", FALSE, << >>),
                Ban("passed", FALSE, << >>) }
WhitelistChoices == { [enabled |-> "true", users |-> {}],
                      [enabled |-> "true", users |-> {NameA}],
                      [enabled |-> "false", users |-> {}] }
NoIpBans == [ip \in {"ip1", "ip2"} |-> NoBan]
NoUserBans == [u \in {NameA, NameB} |-> NoBan]
NoWhitelist == [enabled |-> "absent", users |-> {}]

\* What the database holds: nothing, or one ban of the first address, or one
\* ban of the first username, or a whitelist.
Database ==
    { << NoIpBans, NoUserBans, NoWhitelist >> }
    \cup { << [NoIpBans EXCEPT !["ip1"] = b], NoUserBans, NoWhitelist >> : b \in BanChoices }
    \cup { << NoIpBans, [NoUserBans EXCEPT ![NameA] = b], NoWhitelist >> : b \in BanChoices }
    \cup { << NoIpBans, NoUserBans, w >> : w \in WhitelistChoices }

InitGate ==
    /\ InitConnections
    /\ arrivals = Conns
    /\ \E db \in Database : ip_bans = db[1] /\ user_bans = db[2] /\ whitelist = db[3]

GateClientMenu(c) ==
    CASE pc[c] = "handshake" /\ c = "c1" ->
             { HandshakeFrame(765, 2), HandshakeFrame(764, 2), HandshakeFrame(765, 1),
               HandshakeFrame(-1, 1), TruncatedFrame }
      [] pc[c] = "handshake" /\ c # "c1" -> { HandshakeFrame(765, 2) }
      [] pc[c] = "status" -> { StatusRequestFrame, PingRequestFrame }
      [] pc[c] = "login_start" /\ c = "c1" ->
             { LoginStartFrame(NameA, 7), LoginStartFrame(NameB, 8), LoginAcknowledgedFrame }
      [] pc[c] = "login_start" /\ c # "c1" -> { LoginStartFrame(NameA, 7) }
      [] OTHER -> {}

\* The backend answers once, with the username it was sent.
GateServerMenu(c) ==
    IF pc[c] = "proxy" /\ backend[c].sent = 0
    THEN { LoginSuccessFrame(login_start[c][1], 7) } ELSE {}

GateRelayers(c) ==
    \/ ClientPollRead(c)
    \/ ServerRead(c)
    \/ ServerDecode(c)
    \/ ServerMatch(c)
    \/ ServerAddOnlinePlayer(c)
    \/ ServerForward(c)

GatePeers(c) ==
    \/ \E frame \in GateClientMenu(c) : ClientSend(c, frame, Len(frame))
    \/ ClientClose(c)
    \/ ClientReset(c)
    \/ \E frame \in GateServerMenu(c) : BackendSend(c, frame)
    \/ BackendClose(c)
    \/ BackendReset(c)

NextGate == ClockAdvance \/ \E c \in Conns : Handlers(c) \/ GateRelayers(c) \/ GatePeers(c)

SpecGate == InitGate /\ [][NextGate]_vars

\* The third specification: the command tap.  One client logs in on a fresh
\* database and the two peers exchange plugin messages on basileia:proxy,
\* in Configuration and in Play; the backend's requests are a well-formed
\* IS_PLAYER_BANNED, one of an unknown type, one with a field too many and
\* one cut short.
TapRequests == { IsPlayerBannedRequest(5, NameA), << 6, 9, 65 >>, << 7, 1, 65, 0 >>, << 8 >> }
TapBadRequests == { << 6, 9, 65 >>, << 7, 1, 65, 0 >>, << 8 >> }

TapClientMenu(c) ==
    CASE pc[c] = "handshake" -> { HandshakeFrame(765, 2) }
      [] pc[c] = "login_start" -> { LoginStartFrame(NameA, 7) }
      [] OTHER -> { LoginAcknowledgedFrame,
                    ServerBoundConfigPluginFrame(BASILEIA_PROXY, << 1 >>),
                    ServerBoundPlayPluginFrame(BASILEIA_PROXY, << 1 >>) }

TapServerMenu ==
    { FinishConfigurationFrame,
      ClientBoundConfigPluginFrame(BASILEIA_PROXY, IsPlayerBannedRequest(5, NameA)) }
    \cup { ClientBoundPluginFrame(BASILEIA_PROXY, request) : request \in TapRequests }

TapHandlers(c) ==
    \/ Accept(c)
    \/ \E db \in {"ok", "error"}, deleted \in BOOLEAN : IpCheck(c, db, deleted)
    \/ HandleHandshake(c)
    \/ CheckVersion(c)
    \/ ReadLoginStart(c)
    \/ ExistsCheck(c)
    \/ \E db \in {"ok", "error"}, deleted \in BOOLEAN : BanCheck(c, db, deleted)
    \/ \E reachable \in BOOLEAN : Connect(c, reachable)
    \/ ForwardLogin(c)
    \/ Teardown(c)

TapRelayers(c) ==
    \/ ClientPollRead(c)
    \/ ClientRecvResponse(c)
    \/ ClientInject(c)
    \/ ClientDecode(c)
    \/ ClientMatch(c)
    \/ ClientSetState(c)
    \/ ClientForward(c)
    \/ ServerRead(c)
    \/ ServerDecode(c)
    \/ ServerMatch(c)
    \/ ServerSetState(c)
    \/ ServerSendRequest(c)
    \/ ServerForward(c)
    \/ CommandRecv(c)
    \/ \E db \in {"ok", "error"}, deleted \in BOOLEAN : CommandHandle(c, db, deleted)
    \/ CommandSend(c)

TapPeers(c) ==
    \/ \E frame \in TapClientMenu(c) : ClientSend(c, frame, Len(frame))
    \/ \E frame \in TapServerMenu : BackendSend(c, frame)
    \/ BackendReset(c)

NextTap == \E c \in Conns : TapHandlers(c) \/ TapRelayers(c) \/ TapPeers(c)

SpecTap == Init /\ [][NextTap]_vars

\* The command tap in a compressed session.  The backend sets the threshold
\* ZipThreshold in Login, and from then on it and the client send their
\* frames in the compressed format; every frame here is shorter than the
\* threshold, so its envelope is the length, a data length of zero and the
\* packet as it is (what next_packet reads when compression is set).
ZipThreshold == 64

ZipClientMenu(c) ==
    CASE pc[c] = "handshake" -> { HandshakeFrame(765, 2) }
      [] pc[c] = "login_start" -> { LoginStartFrame(NameA, 7) }
      [] OTHER -> { EnvelopedFrame(LoginAcknowledgedFrame),
                    EnvelopedFrame(AcknowledgeFinishConfigurationFrame) }

ZipServerMenu ==
    { SetCompressionFrame(ZipThreshold),
      EnvelopedFrame(FinishConfigurationFrame),
      EnvelopedFrame(ClientBoundPluginFrame(BASILEIA_PROXY, IsPlayerBannedRequest(5, NameA))) }

ZipPeers(c) ==
    \/ \E frame \in ZipClientMenu(c) : ClientSend(c, frame, Len(frame))
    \/ \E frame \in ZipServerMenu : BackendSend(c, frame)
    \/ BackendReset(c)

ZipRelayers(c) == TapRelayers(c) \/ ServerSetCompression(c)

NextZip == \E c \in Conns : TapHandlers(c) \/ ZipRelayers(c) \/ ZipPeers(c)

SpecZip == Init /\ [][NextZip]_vars

\* The command tap under load, with the scheduling of handle_proxy.  One
\* client logs in; the backend finishes the configuration and sends up to
\* MaxLiveFrames frames in all, command requests on basileia:proxy among
\* them, faster than they are answered, so that a sender meets a full
\* channel; the backend's connection may break.
MaxLiveFrames == 6
\* The first frame of the backend is FinishConfiguration, the others are
\* requests.
MaxLiveRequests == MaxLiveFrames - 1
\* The connections that arrive (Init: arrivals).
LiveConns == {"c1"}

LiveClientMenu(c) ==
    CASE pc[c] = "handshake" -> { HandshakeFrame(765, 2) }
      [] pc[c] = "login_start" -> { LoginStartFrame(NameA, 7) }
      [] OTHER -> { LoginAcknowledgedFrame }

\* The backend finishes the configuration once the client has acknowledged
\* the login, and sends its requests in Play.
LiveServerMenu(c) ==
    IF server_codec[c].state = "Configuration" THEN { FinishConfigurationFrame }
    ELSE IF server_codec[c].state = "Play"
    THEN { ClientBoundPluginFrame(BASILEIA_PROXY, IsPlayerBannedRequest(5, NameA)) }
    ELSE {}

\* The backend writes one frame (BackendSend with the bound of this
\* specification).
LiveBackendSend(c, frame) ==
    /\ pc[c] = "proxy"
    /\ ~backend[c].eof
    /\ backend[c].inb = << >>
    /\ backend[c].sent < MaxLiveFrames
    /\ BackendWaits(c)
    /\ backend' = Upd(backend, c, [backend[c] EXCEPT !.inb = frame, !.sent = @ + 1])
    /\ UNCHANGED << arrivals, globals, pc, handshake, login_start, client, session,
                    tasks, hist >>

LivePeers(c) ==
    \/ \E frame \in LiveClientMenu(c) : ClientSend(c, frame, Len(frame))
    \/ \E frame \in LiveServerMenu(c) : LiveBackendSend(c, frame)
    \/ BackendReset(c)

\* The three futures of handle_proxy's select!.
handle_client(c) ==
    \/ ClientPollRead(c)
    \/ ClientRecvResponse(c)
    \/ ClientInject(c)
    \/ ClientDecode(c)
    \/ ClientMatch(c)
    \/ ClientSetState(c)
    \/ ClientForward(c)

handle_server(c) ==
    \/ ServerRead(c)
    \/ ServerDecode(c)
    \/ ServerMatch(c)
    \/ ServerSetState(c)
    \/ ServerSendRequest(c)
    \/ ServerForward(c)

proxy_command_events(c) ==
    \/ CommandRecv(c)
    \/ \E db \in {"ok", "error"}, deleted \in BOOLEAN : CommandHandle(c, db, deleted)
    \/ CommandSend(c)

NextLive ==
    \E c \in Conns : \/ TapHandlers(c)
                     \/ handle_client(c) \/ handle_server(c) \/ proxy_command_events(c)
                     \/ LivePeers(c)

\* tokio::select! polls each of its futures whenever the connection's task
\* is woken, and a future that can go on wakes the task: none of the three
\* waits forever while it could take a step.
SpecLive ==
    /\ Init
    /\ [][NextLive]_vars
    /\ \A c \in LiveConns : /\ WF_vars(handle_client(c))
                            /\ WF_vars(handle_server(c))
                            /\ WF_vars(proxy_command_events(c))

\* The fourth specification: the online-player table.  One client logs in
\* on a fresh database; the backend announces the login, under the name it
\* was sent or under another, and may do so again; the client may answer
\* with an EncryptionResponse whose array length is negative.
OnlineClientMenu(c) ==
    CASE pc[c] = "handshake" -> { HandshakeFrame(765, 2) }
      [] pc[c] = "login_start" -> { LoginStartFrame(NameA, 7) }
      [] OTHER -> { LoginAcknowledgedFrame, EncryptionResponseNegative }

OnlineServerMenu == { LoginSuccessFrame(NameA, 7), LoginSuccessFrame(NameB, 8) }

OnlineRelayers(c) ==
    \/ ClientPollRead(c)
    \/ ClientDecode(c)
    \/ ClientMatch(c)
    \/ ClientSetState(c)
    \/ ClientForward(c)
    \/ ServerRead(c)
    \/ ServerDecode(c)
    \/ ServerMatch(c)
    \/ ServerAddOnlinePlayer(c)
    \/ ServerForward(c)

OnlinePeers(c) ==
    \/ \E frame \in OnlineClientMenu(c) : ClientSend(c, frame, Len(frame))
    \/ ClientClose(c)
    \/ \E frame \in OnlineServerMenu : BackendSend(c, frame)
    \/ BackendClose(c)

NextOnline == \E c \in Conns : TapHandlers(c) \/ OnlineRelayers(c) \/ OnlinePeers(c)

SpecOnline == Init /\ [][NextOnline]_vars

\* ------------------------------------------------------------- codec bench

\* The framing codec on its own: a peer holding a codec with the same
\* settings (clone_with_settings) encodes client-bound Login packets, each
\* into a Vec of its own, and writes them to the socket; the bytes reach
\* server_codec of the connection in chunks of any size (accept), and
\* next_packet is called at any moment.

MaxCodecPackets == 2
MaxCodecAccepts == 2
MaxCodecCalls == 3
\* Bytes the peer writes: to a plain codec, and to one with a key or a
\* threshold.
MaxCodecWire == 130
MaxCodecWireSet == 14

CodecThreshold == 3
CodecKey == [i \in 1..16 |-> 16 + i]
LongText == [i \in 1..125 |-> 97]

\* A client-bound Login packet and the bytes its Encoder writes.
CodecLoginDisconnect(reason) ==
    [p |-> [s |-> "Login", t |-> "LoginDisconnect", id |-> 0, f |-> << reason >>],
     bytes |-> encode_LoginDisconnect(reason)]
CodecSetCompression(threshold) ==
    [p |-> [s |-> "Login", t |-> "SetCompression", id |-> 3, f |-> << threshold >>],
     bytes |-> var_int_encode(3) \o var_int_encode(threshold)]

CodecPackets ==
    { CodecLoginDisconnect(<< >>), CodecLoginDisconnect(ReasonText),
      CodecSetCompression(300), CodecLoginDisconnect(LongText) }

\* Everything but the connection under test is as after construction and
\* stays so: no arrival, an empty database.
InitBench ==
    /\ arrivals = {}
    /\ ip_bans = [ip \in {"ip1", "ip2"} |-> NoBan]
    /\ user_bans = [u \in {NameA, NameB} |-> NoBan]
    /\ whitelist = [enabled |-> "absent", users |-> {}]
    /\ online_players = << >>
    /\ handshake = [c \in Conns |-> << >>]
    /\ login_start = [c \in Conns |-> << >>]
    /\ backend = [c \in Conns |-> BackendSocketNew]
    /\ client_codec = [c \in Conns |-> PacketCodecNew]
    /\ login_info = [c \in Conns |-> << >>]
    /\ request_ch = [c \in Conns |-> << >>]
    /\ response_ch = [c \in Conns |-> << >>]
    /\ hclient = [c \in Conns |-> HClientNew]
    /\ hserver = [c \in Conns |-> HServerNew]
    /\ hcommand = [c \in Conns |-> HCommandNew]
    /\ hist = [c \in Conns |-> HistNew]

\* ServerPacketCodec::new, set_state(Login), and the settings under test:
\* enable_encryption(CodecKey) or not, enable_compression(CodecThreshold) or
\* not.
InitCodec ==
    /\ InitBench
    /\ pc = [c \in Conns |-> IF c = "c1" THEN "codec" ELSE "none"]
    /\ client = [c \in Conns |-> ClientSocketNew]
    /\ \E key \in {<< >>, CodecKey}, threshold \in {-1, CodecThreshold} :
           server_codec = [c \in Conns |->
               IF c = "c1"
               THEN [state |-> "Login",
                     codec |-> [MinecraftCodecNew EXCEPT !.crypt_key = key,
                                                         !.compression = threshold]]
               ELSE PacketCodecNew]

\* The peer: ServerPacketCodec::encode into a fresh Vec, written to the socket.
CodecEncode(c) ==
    /\ pc[c] = "codec"
    /\ Len(hist[c].sent) < MaxCodecPackets
    /\ \E packet \in CodecPackets :
         LET e == encode(clone_with_settings(server_codec[c].codec), packet.bytes, << >>)
         IN /\ hist[c].wire + Len(e.output)
                  <= IF server_codec[c].codec.crypt_key = << >>
                        /\ server_codec[c].codec.compression < 0
                     THEN MaxCodecWire ELSE MaxCodecWireSet
            /\ backend' = Upd(backend, c, [backend[c] EXCEPT !.inb = @ \o e.output])
            /\ hist' = Upd(hist, c, [hist[c] EXCEPT !.sent = Append(@, packet),
                                                    !.wire = @ + Len(e.output)])
    /\ UNCHANGED << arrivals, globals, pc, handshake, login_start, client, session, tasks >>

\* A read of k bytes from the socket, handed to accept.
CodecAccept(c) ==
    /\ pc[c] = "codec"
    /\ hist[c].chunks < MaxCodecAccepts
    /\ \E k \in 1..Len(backend[c].inb) :
         /\ server_codec' = Upd(server_codec, c,
                [server_codec[c] EXCEPT !.codec = accept(@, SubSeq(backend[c].inb, 1, k))])
         /\ backend' = Upd(backend, c, [backend[c] EXCEPT !.inb = Seq0(@, k + 1)])
    /\ hist' = Upd(hist, c, [hist[c] EXCEPT !.chunks = @ + 1])
    /\ UNCHANGED << arrivals, globals, pc, handshake, login_start, client, client_codec,
                    login_info, request_ch, response_ch, tasks >>

\* next_packet::<LoginClientBoundPacket>; the call is logged with the
\* buffer it found and the buffer it left.
CodecNextPacket(c) ==
    /\ pc[c] = "codec"
    /\ Len(hist[c].dec) < MaxCodecCalls
    /\ LET n == next_packet(server_codec[c].codec, "server", server_codec[c].state)
       IN /\ server_codec' = Upd(server_codec, c, [server_codec[c] EXCEPT !.codec = n.codec])
          /\ hist' = Upd(hist, c, [hist[c] EXCEPT !.dec =
                        Append(@, [r |-> n.r, p |-> n.p,
                                   before |-> server_codec[c].codec.received_buf,
                                   after |-> n.codec.received_buf])])
    /\ UNCHANGED << arrivals, globals, pc, handshake, login_start, client, backend,
                    client_codec, login_info, request_ch, response_ch, tasks >>

NextCodec ==
    \E c \in Conns : CodecEncode(c) \/ CodecAccept(c) \/ CodecNextPacket(c)

SpecCodec == InitCodec /\ [][NextCodec]_vars

\* ------------------------------------------------------------- VarInt bench

\* read_var_i32 on its own: a cursor over any sequence of at most
\* MaxVarIntInput bytes taken from VarIntBytes.
MaxVarIntInput == 6
VarIntBytes == {2, 7, 15, 127, 172, 255}

RECURSIVE ByteSeqs(_)
ByteSeqs(n) ==
    IF n = 0 THEN { << >> }
    ELSE LET shorter == ByteSeqs(n - 1)
         IN shorter \cup { Append(s, b) : s \in { t \in shorter : Len(t) = n - 1 },
                                          b \in VarIntBytes }

InitVarInt ==
    /\ InitBench
    /\ pc = [c \in Conns |-> IF c = "c1" THEN "varint" ELSE "none"]
    /\ server_codec = [c \in Conns |-> PacketCodecNew]
    /\ \E input \in ByteSeqs(MaxVarIntInput) :
           client = [c \in Conns |-> IF c = "c1" THEN [ClientSocketNew EXCEPT !.inb = input]
                                     ELSE ClientSocketNew]

\* cursor.read_var_i32(): the outcome is logged with the input, and the
\* cursor keeps what the call has not consumed.
VarIntRead(c) ==
    /\ pc[c] = "varint"
    /\ LET r == read_var_i32(client[c].inb, 1)
       IN /\ hist' = Upd(hist, c, [hist[c] EXCEPT !.dec =
                        Append(@, [st |-> r.st, v |-> r.v, before |-> client[c].inb])])
          /\ client' = Upd(client, c, [client[c] EXCEPT !.inb = Seq0(@, r.pos)])
    /\ pc' = Upd(pc, c, "closed")
    /\ UNCHANGED << arrivals, globals, handshake, login_start, backend, session, tasks >>

NextVarInt == \E c \in Conns : VarIntRead(c)

SpecVarInt == InitVarInt /\ [][NextVarInt]_vars

\* ------------------------------------------------------------- frame reader bench

\* read_packet on its own: a socket that delivers any sequence of at most
\* MaxFrameInput bytes taken from FrameBytes and then ends; the bytes hold
\* minimal and padded encodings of the lengths 0, 1 and 2.
MaxFrameInput == 4
FrameBytes == {0, 1, 2, 129, 130, 255}

RECURSIVE FrameSeqs(_)
FrameSeqs(n) ==
    IF n = 0 THEN { << >> }
    ELSE LET shorter == FrameSeqs(n - 1)
         IN shorter \cup { Append(s, b) : s \in { t \in shorter : Len(t) = n - 1 },
                                          b \in FrameBytes }

InitFrame ==
    /\ InitBench
    /\ pc = [c \in Conns |-> IF c = "c1" THEN "frame" ELSE "none"]
    /\ server_codec = [c \in Conns |-> PacketCodecNew]
    /\ \E input \in FrameSeqs(MaxFrameInput) :
           client = [c \in Conns |-> IF c = "c1" THEN [ClientSocketNew EXCEPT !.inb = input]
                                     ELSE ClientSocketNew]

\* read_packet(&mut reader, encode_length): the outcome is logged with the
\* bytes the socket held; the socket keeps what the call has not consumed.
\* A call the socket's end interrupts, or one that fails, is the last.
FrameRead(c) ==
    /\ pc[c] = "frame"
    /\ \E encode_length \in BOOLEAN :
         LET r == read_packet(client[c].inb, encode_length)
         IN /\ hist' = Upd(hist, c, [hist[c] EXCEPT !.dec =
                          Append(@, [r |-> r, encode_length |-> encode_length,
                                     before |-> client[c].inb])])
            /\ client' = Upd(client, c, [client[c] EXCEPT !.inb = Seq0(@, r.n + 1)])
            /\ pc' = Upd(pc, c, IF r.st \in {"some", "none"} THEN "frame" ELSE "closed")
    /\ UNCHANGED << arrivals, globals, handshake, login_start, backend, session, tasks >>

NextFrame == \E c \in Conns : FrameRead(c)

SpecFrame == InitFrame /\ [][NextFrame]_vars

\* ------------------------------------------------------------- frame decoder bench

\* next_packet on received bytes of any kind: the peer's stream is at most
\* MaxDecodePieces pieces of DecodePieces, delivered in at most
\* MaxDecodeAccepts chunks cut anywhere, with up to MaxDecodeCalls calls of
\* next_packet::<LoginClientBoundPacket> in between.  The pieces are well
\* formed frames without and with the compression envelope, frames the
\* catalog refuses, a corrupt zlib stream, a frame cut short, a length
\* prefix of six bytes and a negative length.
MaxDecodePieces == 2
MaxDecodeAccepts == 2
MaxDecodeCalls == 3
DecodePieces ==
    { SetCompressionFrame(1), << 1, 9 >>, << 2, 3 >>,
      << 3, 0, 3, 1 >>, << 4, 2, 120, 3, 1 >>, << 4, 2, 120, 9, 9 >>, << 3, 1, 7, 7 >>,
      << 255, 255, 255, 255, 255, 1 >>, << 255, 255, 255, 255, 15 >> }

RECURSIVE DecodeStreams(_)
DecodeStreams(n) ==
    IF n = 0 THEN { << >> }
    ELSE { piece \o rest : piece \in DecodePieces, rest \in DecodeStreams(n - 1) }
         \cup DecodeStreams(n - 1)

InitDecode ==
    /\ InitBench
    /\ pc = [c \in Conns |-> IF c = "c1" THEN "decode" ELSE "none"]
    /\ \E threshold \in {-1, CodecThreshold}, stream \in DecodeStreams(MaxDecodePieces) :
         /\ client = [c \in Conns |-> IF c = "c1"
                                       THEN [ClientSocketNew EXCEPT !.inb = stream]
                                       ELSE ClientSocketNew]
         /\ server_codec = [c \in Conns |->
                IF c = "c1"
                THEN [state |-> "Login",
                      codec |-> [MinecraftCodecNew EXCEPT !.compression = threshold]]
                ELSE PacketCodecNew]

\* A read of k bytes from the socket, handed to accept.
DecodeAccept(c) ==
    /\ pc[c] = "decode"
    /\ hist[c].chunks < MaxDecodeAccepts
    /\ \E k \in 1..Len(client[c].inb) :
         /\ server_codec' = Upd(server_codec, c,
                [server_codec[c] EXCEPT !.codec = accept(@, SubSeq(client[c].inb, 1, k))])
         /\ client' = Upd(client, c, [client[c] EXCEPT !.inb = Seq0(@, k + 1)])
    /\ hist' = Upd(hist, c, [hist[c] EXCEPT !.chunks = @ + 1])
    /\ UNCHANGED << arrivals, globals, pc, handshake, login_start, backend,
                    client_codec, login_info, request_ch, response_ch, tasks >>

\* next_packet::<LoginClientBoundPacket>; the call is logged with the
\* codec it found and the codec it left.
DecodeNext(c) ==
    /\ pc[c] = "decode"
    /\ Len(hist[c].dec) < MaxDecodeCalls
    /\ LET n == next_packet(server_codec[c].codec, "server", server_codec[c].state)
       IN /\ server_codec' = Upd(server_codec, c, [server_codec[c] EXCEPT !.codec = n.codec])
          /\ hist' = Upd(hist, c, [hist[c] EXCEPT !.dec =
                        Append(@, [r |-> n.r, p |-> n.p,
                                   before |-> server_codec[c].codec, after |-> n.codec])])
    /\ UNCHANGED << arrivals, globals, pc, handshake, login_start, client, backend,
                    client_codec, login_info, request_ch, response_ch, tasks >>

NextDecode == \E c \in Conns : DecodeAccept(c) \/ DecodeNext(c)

SpecDecode == InitDecode /\ [][NextDecode]_vars

\* ------------------------------------------------------------- ban store bench

\* The two ban repositories on their own, on a database that answers: any
\* sequence of at most MaxBanCalls calls of add_ban, is_banned, remove_ban
\* and get_bans on the user_bans table (two usernames) and the ip_bans
\* table (one address), with time passing between calls.  Every call is
\* logged with the table it found.
MaxBanCalls == 3
ReasonOther == << 121 >>
BenchIps == {"ip1"}
BenchReasons == { << FALSE, << >> >>, << TRUE, ReasonText >>, << TRUE, ReasonOther >> }

InitBans ==
    /\ InitBench
    /\ pc = [c \in Conns |-> IF c = "c1" THEN "bans" ELSE "none"]
    /\ client = [c \in Conns |-> ClientSocketNew]
    /\ server_codec = [c \in Conns |-> PacketCodecNew]

BansTable(t) == IF t = "user_bans" THEN user_bans ELSE ip_bans
BansKeys(t) == IF t = "user_bans" THEN DOMAIN user_bans ELSE BenchIps

NoArg == << "none", FALSE, << >> >>

\* The call of one repository function on (t, key) with the arguments arg
\* (expiration, reason given or not, reason), its outcome r written to the
\* table and to the log.
BansCall(c, t, op, key, arg, r) ==
    /\ pc[c] = "bans"
    /\ Len(hist[c].dec) < MaxBanCalls
    /\ IF t = "user_bans" THEN user_bans' = r.table /\ UNCHANGED ip_bans
       ELSE ip_bans' = r.table /\ UNCHANGED user_bans
    /\ hist' = Upd(hist, c, [hist[c] EXCEPT !.dec =
                  Append(@, [t |-> t, op |-> op, key |-> key, arg |-> arg,
                             before |-> BansTable(t), r |-> r])])
    /\ UNCHANGED << arrivals, online_players, whitelist, pc, handshake, login_start,
                    client, backend, session, tasks >>

BansAdd(c) ==
    \E t \in {"user_bans", "ip_bans"} : \E key \in BansKeys(t) :
    \E expiration \in {"none", "later"}, reason \in BenchReasons :
        BansCall(c, t, "add_ban", key, << expiration, reason[1], reason[2] >>,
                 add_ban(BansTable(t), key, expiration, reason[1], reason[2], "ok", TRUE))

BansIsBanned(c) ==
    \E t \in {"user_bans", "ip_bans"} : \E key \in BansKeys(t) :
        BansCall(c, t, "is_banned", key, NoArg, is_banned(BansTable(t), key, "ok", TRUE))

BansRemove(c) ==
    \E t \in {"user_bans", "ip_bans"} : \E key \in BansKeys(t) :
        BansCall(c, t, "remove_ban", key, NoArg, remove_ban(BansTable(t), key, "ok"))

BansGet(c) ==
    \E t \in {"user_bans", "ip_bans"} :
        BansCall(c, t, "get_bans", "all", NoArg, get_bans(BansTable(t), "ok"))

NextBans ==
    ClockAdvance \/ \E c \in Conns : BansAdd(c) \/ BansIsBanned(c) \/ BansRemove(c) \/ BansGet(c)

SpecBans == InitBans /\ [][NextBans]_vars

\* ------------------------------------------------------------- whitelist flag bench

\* repository/whitelist.rs set_enabled: kv.set("whitelist.enabled", "true" or
\* "false"), an UPDATE of the row or its INSERT (repository/kv.rs set_ttl).
set_enabled(w, enabled, db) ==
    IF db = "error" THEN [st |-> "err", whitelist |-> w]
    ELSE [st |-> "ok",
          whitelist |-> [w EXCEPT !.enabled = IF enabled THEN "true" ELSE "false"]]

changed_message_Differs(before_enabled, enabled) == before_enabled # enabled

\* commands/handler.rs, the SetWhitelistEnabled arm: ChangedMessage { changed:
\* before_enabled == set_enabled.enabled }.
changed_message(before_enabled, enabled) == before_enabled = enabled

\* handle_command(SetWhitelistEnabled { enabled }): is_enabled()?, then
\* set_enabled(enabled)?, then the ChangedMessage.  db_get and db_set say
\* whether the two queries succeed.
handle_SetWhitelistEnabled(w, enabled, db_get, db_set) ==
    LET Done(r) == IF r.st = "err" THEN [st |-> "err", value |-> FALSE, whitelist |-> w]
                   ELSE [st |-> "ok", value |-> changed_message(is_enabled(w), enabled),
                         whitelist |-> r.whitelist]
    IN IF db_get = "error" THEN [st |-> "err", value |-> FALSE, whitelist |-> w]
       ELSE Done(set_enabled(w, enabled, db_set))

\* handle_command(IsWhitelistEnabled): IsWhitelistEnabledResponse { enabled }.
handle_IsWhitelistEnabled(w, db) ==
    IF db = "error" THEN [st |-> "err", value |-> FALSE, whitelist |-> w]
    ELSE [st |-> "ok", value |-> is_enabled(w), whitelist |-> w]

\* The two whitelist-flag commands on their own, on a fresh database: any
\* sequence of at most MaxFlagCalls commands, each logged with the flag it
\* found.
MaxFlagCalls == 5

InitFlag ==
    /\ InitBench
    /\ pc = [c \in Conns |-> IF c = "c1" THEN "flag" ELSE "none"]
    /\ client = [c \in Conns |-> ClientSocketNew]
    /\ server_codec = [c \in Conns |-> PacketCodecNew]

FlagCall(c, op, arg, r) ==
    /\ pc[c] = "flag"
    /\ Len(hist[c].dec) < MaxFlagCalls
    /\ whitelist' = r.whitelist
    /\ hist' = Upd(hist, c, [hist[c] EXCEPT !.dec =
                  Append(@, [op |-> op, arg |-> arg, before |-> whitelist, r |-> r])])
    /\ UNCHANGED << arrivals, online_players, ip_bans, user_bans, pc, handshake,
                    login_start, client, backend, session, tasks >>

FlagSet(c) ==
    \E enabled \in BOOLEAN, db_get \in {"ok", "error"}, db_set \in {"ok", "error"} :
        FlagCall(c, "SET_WHITELIST_ENABLED", enabled,
                 handle_SetWhitelistEnabled(whitelist, enabled, db_get, db_set))

FlagGet(c) ==
    \E db \in {"ok", "error"} :
        FlagCall(c, "IS_WHITELIST_ENABLED", FALSE, handle_IsWhitelistEnabled(whitelist, db))

NextFlag == \E c \in Conns : FlagSet(c) \/ FlagGet(c)

SpecFlag == InitFlag /\ [][NextFlag]_vars

\* ------------------------------------------------------------ properties

\* A passive decode that gave no packet: Err(_) or Ok(None).
DecodeFailed(res) == res.r \in {"err", "none"}

LastOf(seq) == seq[Len(seq)]

\* The bytes the client relayer has relayed to the backend, injected command
\* responses and the two login frames left out.
RelayedToBackend(c) ==
    LET relayed == SelectSeq(backend[c].out, LAMBDA w : w.tag = "relay")
    IN Flatten([i \in 1..Len(relayed) |-> relayed[i].bytes])

\* C1: in the proxy loop a frame whose decode failed or gave no packet is
\* still written to the opposite peer exactly as read_packet returned it, and
\* the relayer goes back to reading; only a peer socket that is down ends the
\* relay at that write.
C1_ClientStep(c) ==
    /\ pc[c] = "proxy"
    /\ hclient[c].pc \in {"match", "forward"}
    /\ DecodeFailed(hclient[c].res)
    /\ hclient'[c] # hclient[c]
C1_ServerStep(c) ==
    /\ pc[c] = "proxy"
    /\ hserver[c].pc \in {"match", "forward"}
    /\ DecodeFailed(hserver[c].res)
    /\ hserver'[c] # hserver[c]
C1_DecodeFailureForwards ==
    [][\A c \in Conns :
        /\ C1_ClientStep(c) =>
              IF hclient[c].pc = "match"
              THEN /\ hclient'[c] = [hclient[c] EXCEPT !.pc = "forward"]
                   /\ pc'[c] = "proxy"
              ELSE IF backend[c].up
              THEN /\ backend'[c].out = Append(backend[c].out,
                                               [tag |-> "relay", bytes |-> hclient[c].vec])
                   /\ hclient'[c].pc = "select"
                   /\ pc'[c] = "proxy"
              ELSE pc'[c] = "teardown"
        /\ C1_ServerStep(c) =>
              IF hserver[c].pc = "match"
              THEN /\ hserver'[c] = [hserver[c] EXCEPT !.pc = "forward"]
                   /\ pc'[c] = "proxy"
              ELSE IF client[c].up
              THEN /\ client'[c].out = Append(client[c].out, hserver[c].vec)
                   /\ hserver'[c].pc = "read"
                   /\ pc'[c] = "proxy"
              ELSE pc'[c] = "teardown"
    ]_vars

\* C1 witness: both relayers have forwarded a frame they could not decode and
\* are back at their reads.
C1_Witness ==
    \E c \in Conns :
        /\ pc[c] = "proxy"
        /\ hclient[c].pc = "select" /\ hclient[c].res.r = "err"
        /\ LastOf(backend[c].out) = [tag |-> "relay", bytes |-> hclient[c].vec]
        /\ hserver[c].pc = "read" /\ hserver[c].res.r = "err"
        /\ client[c].out # << >> /\ LastOf(client[c].out) = hserver[c].vec

\* C2 (client to backend): whenever the client relayer is at its select!, the
\* bytes relayed to the backend followed by the bytes the pending read has
\* taken are exactly the bytes read from the client so far.
C2_ClientBytesPreserved ==
    \A c \in Conns :
        (pc[c] = "proxy" /\ hclient[c].pc = "select")
            => RelayedToBackend(c) \o hclient[c].read = hist[c].cread

AllGates == << "ip", "handshake", "version", "login_start", "online", "ban" >>

\* C3: a backend connection is attempted only for a connection that went
\* through every gate in order - address not actively banned, handshake
\* decoded, next_state Login, protocol version 765, LoginStart decoded,
\* username not online, username not actively banned - each as the shared
\* tables stood when the gate looked.
C3_BackendOnlyAfterGates ==
    \A c \in Conns :
        backend[c].open # "no" =>
            /\ hist[c].gates = AllGates
            /\ hist[c].facts \cap {"ip_banned", "online", "user_banned"} = {}
            /\ Len(handshake[c]) = 4
            /\ handshake[c][4] = 2
            /\ handshake[c][1] = 765
            /\ Len(login_start[c]) = 2

\* C3 witness: a connection passed the gates and its backend connection is
\* open.
C3_Witness == \E c \in Conns : backend[c].open = "open" /\ pc[c] = "proxy"

\* C4: no backend connection is opened for a LoginStart whose username was
\* not whitelisted while the whitelist was enabled.
C4_WhitelistEnforced ==
    \A c \in Conns : backend[c].open # "no" => "not_whitelisted" \notin hist[c].facts

\* The single disconnect frame of a refused duplicate login.
PlayerExistsFrame == encode_packet(encode_LoginDisconnect(PLAYER_EXISTS_MSG))

\* C5: when the duplicate-login check finds the LoginStart username in the
\* online-player table, the connection closes at that step, the client has
\* been written exactly one frame, the LoginDisconnect with the
\* already-logged-in text (nothing if its socket is down), no backend
\* connection exists, and no step of the connection from its arrival to its
\* end changes the online-player table.
C5_DuplicateStep(c) ==
    /\ pc[c] = "exists_check"
    /\ pc'[c] # "exists_check"
    /\ login_start[c][1] \in DOMAIN online_players
C5_DuplicateLoginRefused ==
    [][\A c \in Conns :
        /\ C5_DuplicateStep(c) =>
              /\ pc'[c] = "closed"
              /\ client'[c].out = IF client[c].up THEN << PlayerExistsFrame >> ELSE << >>
              /\ backend'[c].open = "no"
        /\ (pc'[c] # pc[c] /\ pc'[c] \in {"ip_check", "handshake", "login", "login_start",
                                          "exists_check", "ban_check"})
              => online_players' = online_players
        /\ (pc'[c] # pc[c] /\ pc[c] = "exists_check") => online_players' = online_players
    ]_vars

\* C5 witness: a connection was refused as a duplicate while the other one
\* holds the name.
C5_Witness ==
    \E c \in Conns :
        /\ pc[c] = "closed"
        /\ client[c].out = << PlayerExistsFrame >>
        /\ login_start[c] # << >>
        /\ login_start[c][1] \in DOMAIN online_players

IsPacket(res, variant, name) == res.r = "ok" /\ res.p.s = variant /\ res.p.t = name

\* C6: the codecs enter the proxy loop in Login, and a codec's protocol state
\* changes only to Configuration by the client relayer after it decoded
\* LoginAcknowledged, to Play by the client relayer after it decoded
\* AcknowledgeFinishConfiguration, or to Play by the server relayer after it
\* decoded FinishConfiguration; no other packet, no failed decode, no other
\* step changes it.
C6_Cause(c, from, to, new) ==
    \/ /\ hclient[c].pc = from /\ hclient'[c].pc = to
       /\ IsPacket(hclient[c].res, "Login", "LoginAcknowledged")
       /\ new = "Configuration"
    \/ /\ hclient[c].pc = from /\ hclient'[c].pc = to
       /\ IsPacket(hclient[c].res, "Configuration", "AcknowledgeFinishConfiguration")
       /\ new = "Play"
    \/ /\ hserver[c].pc = from /\ hserver'[c].pc = to
       /\ IsPacket(hserver[c].res, "Configuration", "FinishConfiguration")
       /\ new = "Play"
C6_StateChangesOnlyByThree ==
    [][\A c \in Conns :
        /\ (pc[c] # "proxy" /\ pc'[c] = "proxy")
              => client_codec'[c].state = "Login" /\ server_codec'[c].state = "Login"
        /\ (pc[c] = "proxy" /\ client_codec'[c].state # client_codec[c].state)
              => C6_Cause(c, "match", "set_state", client_codec'[c].state)
        /\ (pc[c] = "proxy" /\ server_codec'[c].state # server_codec[c].state)
              => C6_Cause(c, "set_state", "forward", server_codec'[c].state)
        /\ (pc[c] \in {"teardown", "closed", "aborted"})
              => /\ client_codec'[c].state = client_codec[c].state
                 /\ server_codec'[c].state = server_codec[c].state
    ]_vars

\* C6 witness: all three changes have happened on one connection's way to
\* Play: the client relayer entered Configuration, the server relayer's
\* FinishConfiguration entered Play.
C6_Witness ==
    \E c \in Conns :
        /\ pc[c] = "proxy"
        /\ IsPacket(hclient[c].res, "Login", "LoginAcknowledged")
        /\ IsPacket(hserver[c].res, "Configuration", "FinishConfiguration")
        /\ hserver[c].pc = "forward"
        /\ client_codec[c].state = "Play" /\ server_codec[c].state = "Play"

\* C7: no decode_client or decode_server call runs while the two codecs hold
\* different protocol states.
C7_DecodeStep(c) ==
    /\ pc[c] = "proxy"
    /\ \/ hclient[c].pc = "decode" /\ hclient'[c].pc # "decode"
       \/ hserver[c].pc = "decode" /\ hserver'[c].pc # "decode"
C7_DecodeUnderOneState ==
    [][\A c \in Conns : C7_DecodeStep(c) => client_codec[c].state = server_codec[c].state]_vars

\* The server relayer holds a decoded SetCompression with a threshold of zero
\* or more that set_compression has not yet put on both codecs.
CompressionPending(c) ==
    /\ hserver[c].pc \in {"match", "set_compression"}
    /\ IsPacket(hserver[c].res, "Login", "SetCompression")
    /\ hserver[c].res.p.f[1] >= 0

\* C8 (a later frame waits for the threshold): once the server relayer has
\* decoded SetCompression with a threshold of zero or more, no frame is decoded
\* in either direction until both codecs have that threshold.
C8_NoDecodeBeforeThreshold ==
    [][\A c \in Conns : C7_DecodeStep(c) => ~CompressionPending(c)]_vars

\* The server relayer has decoded SetCompression with a negative threshold.
NegativeSetCompression(c) ==
    /\ hserver[c].pc = "match"
    /\ IsPacket(hserver[c].res, "Login", "SetCompression")
    /\ hserver[c].res.p.f[1] < 0

C10_DivertedNeverForwarded ==
    \A c \in Conns :
        ( /\ pc[c] = "proxy"
          /\ hserver[c].pc \in {"match", "send"}
          /\ IsPacket(hserver[c].res, "Play", "ClientBoundPluginMessage")
          /\ hserver[c].res.p.f[1] = BASILEIA_PROXY )
            => hist[c].spop \notin hist[c].sfwd

\* A decoded plugin message on basileia:proxy, of either direction and either
\* state that has one.
OnChannel(res) ==
    /\ res.r = "ok"
    /\ res.p.s \in {"Configuration", "Play"}
    /\ res.p.t \in {"ClientBoundPluginMessage", "ServerBoundPluginMessage"}
    /\ res.p.f[1] = BASILEIA_PROXY

\* C11: no relayer writes to the opposite peer a frame it has just decoded
\* as a plugin message on basileia:proxy, in Configuration or in Play, from
\* the backend to the client or from the client to the backend.  (The codec's
\* buffer is empty after the decode: the packet is that of the frame in hand.)
C11_ChannelNotRelayed ==
    [][\A c \in Conns :
        /\ ( /\ pc[c] = "proxy" /\ hserver[c].pc = "forward"
             /\ client'[c].out # client[c].out )
              => ~( /\ OnChannel(hserver[c].res)
                    /\ server_codec[c].codec.received_buf = << >> )
        /\ ( /\ pc[c] = "proxy" /\ hclient[c].pc = "forward"
             /\ backend'[c].out # backend[c].out )
              => ~( /\ OnChannel(hclient[c].res)
                    /\ client_codec[c].codec.received_buf = << >> )
    ]_vars

\* The command-response frames written to the backend, in the order written.
InjectedFrames(c) ==
    LET injected == SelectSeq(backend[c].out, LAMBDA w : w.tag = "inject")
    IN [i \in 1..Len(injected) |-> injected[i].bytes]

\* A server-bound Play plugin message (0x10) on basileia:proxy, spelled out
\* byte by byte: frame length, type id, channel length, channel, data.
ResponseFrame(response) ==
    << 1 + 1 + 14 + Len(response), 16, 14,
       98, 97, 115, 105, 108, 101, 105, 97, 58, 112, 114, 111, 120, 121 >> \o response

\* The responses produced and not yet written: in the client relayer's hand,
\* in the response channel, in the command relayer's hand.
UnwrittenResponses(c) ==
    (IF hclient[c].pc = "inject" THEN << hclient[c].msg >> ELSE << >>)
        \o response_ch[c]
        \o (IF hcommand[c].pc = "send" THEN << hcommand[c].response >> ELSE << >>)

\* C12: the requests diverted so far are, in order, those handled, the one
\* being handled and those waiting in the request channel, so none is
\* handled twice or skipped and each handling gave one response; the frames
\* injected toward the backend are, in order, the first responses, each as a
\* server-bound Play plugin message 0x10 on basileia:proxy; and while the
\* backend socket is up every response is either injected or still on its
\* way, in order.
C12_ResponsesInOrder ==
    \A c \in Conns :
        LET handled == hist[c].handled
            requests == [i \in 1..Len(handled) |-> handled[i].request]
            responses == [i \in 1..Len(handled) |-> handled[i].response]
            injected == InjectedFrames(c)
        IN /\ hist[c].div = requests
                  \o (IF hcommand[c].pc = "handle" THEN << hcommand[c].request >> ELSE << >>)
                  \o request_ch[c]
           /\ Len(injected) <= Len(responses)
           /\ \A i \in 1..Len(injected) : injected[i] = ResponseFrame(responses[i])
           /\ backend[c].up =>
                 responses = SubSeq(responses, 1, Len(injected)) \o UnwrittenResponses(c)

\* C12 witness: two different responses were injected, in the order of their
\* requests.
C12_Witness ==
    \E c \in Conns :
        /\ Len(InjectedFrames(c)) = 2
        /\ InjectedFrames(c)[1] # InjectedFrames(c)[2]
        /\ Len(hist[c].div) = 2
        /\ InjectedFrames(c)[1] = ResponseFrame(hist[c].handled[1].response)
        /\ hist[c].handled[1].request = hist[c].div[1]

\* The requests that deserialize: an id, the type IS_PLAYER_BANNED, a username.
WellFormedRequests == { << id, 1 >> \o name : id \in 0..8, name \in {NameA, NameB} }

C14_OthersStopOnCompletion ==
    [][\A c \in Conns : pc[c] \in {"teardown", "closed"} =>
        /\ hclient'[c] = hclient[c]
        /\ hserver'[c] = hserver[c]
        /\ hcommand'[c] = hcommand[c]
        /\ client'[c].out = client[c].out
        /\ backend'[c].out = backend[c].out
        /\ client_codec'[c] = client_codec[c]
        /\ server_codec'[c] = server_codec[c]
        /\ login_info'[c] = login_info[c]
        /\ request_ch'[c] = request_ch[c]
        /\ response_ch'[c] = response_ch[c]
        /\ hist'[c] = hist[c]
        /\ pc'[c] \in {pc[c], "closed"}
    ]_vars

\* C14 witness: the client relayer completed (its read met the end of the
\* stream) while the server relayer held a frame it had still to write and
\* the command task held a response it had still to send; the connection
\* went through teardown with both left where they stood.
C14_Witness ==
    \E c \in Conns :
        /\ pc[c] = "closed"
        /\ backend[c].open = "open"
        /\ hclient[c].pc = "select"
        /\ hserver[c].pc = "forward"
        /\ hcommand[c].pc = "send"

\* C15 (entries removed on termination): once a connection is over, no
\* username it inserted into the online-player table is still there under
\* the uuid it inserted.
C15_InsertedRemovedOnExit ==
    \A c \in Conns : pc[c] = "closed" =>
        \A e \in hist[c].ins :
            ~(e[1] \in DOMAIN online_players /\ online_players[e[1]] = e[2])

\* C16 (entry held while connected): from the insertion a connection made
\* on LoginSuccess until that connection's teardown, the online-player table
\* maps the username to the uuid of that LoginSuccess.
C16_EntryHeldWhileConnected ==
    \A c \in Conns : pc[c] \in {"proxy", "teardown"} =>
        \A e \in hist[c].ins :
            e[1] \in DOMAIN online_players /\ online_players[e[1]] = e[2]

\* C17: a connection whose address had an active ban when handle_conn looked
\* it up is closed at once: nothing was ever written to its client, no
\* handshake was read or kept, no later gate was passed and no backend
\* connection was attempted.
C17_IpBanClosesSilently ==
    \A c \in Conns : "ip_banned" \in hist[c].facts =>
        /\ pc[c] = "closed"
        /\ client[c].out = << >>
        /\ client[c].sent = 0
        /\ handshake[c] = << >>
        /\ login_start[c] = << >>
        /\ hist[c].gates = << >>
        /\ hist[c].cread = << >>
        /\ backend[c].open = "no"
        /\ backend[c].out = << >>

\* C17 witness: the first connection came from a banned address and was
\* closed, the ban still on record, while the second, from another address,
\* went through to its backend.
C17_Witness ==
    \E c, o \in Conns :
        /\ "ip_banned" \in hist[c].facts
        /\ ActiveBan(ip_bans[Addr(c)])
        /\ pc[c] = "closed"
        /\ pc[o] = "proxy"
        /\ backend[o].open = "open"

\* The LoginDisconnect frame that refuses a protocol version: length 51,
\* packet id 0, a string of 49 bytes.
VersionRefusalFrame == << 51, 0, 49 >> \o VERSION_NOT_ACCEPTED_MSG

\* C18: once handle_conn has looked at a Login handshake whose protocol
\* version is not 765, the connection is closed; its client was written
\* exactly one frame, the LoginDisconnect saying that the version is not
\* accepted (nothing if its socket had broken by then); no LoginStart was
\* read, no later gate passed and no backend connection attempted.
C18_WrongVersionRefused ==
    \A c \in Conns :
        ( /\ handshake[c] # << >>
          /\ handshake[c][4] = 2
          /\ handshake[c][1] # 765
          /\ pc[c] # "login" )
        => /\ pc[c] = "closed"
           /\ client[c].out = IF client[c].up THEN << VersionRefusalFrame >> ELSE << >>
           /\ login_start[c] = << >>
           /\ hist[c].gates = << "ip", "handshake" >>
           /\ backend[c].open = "no"
           /\ backend[c].out = << >>

\* C18 witness: a client that announced version 764 for a login holds the
\* refusal and is closed, and the other connection, on 765, reached its
\* backend.
C18_Witness ==
    \E c, o \in Conns :
        /\ handshake[c] # << >>
        /\ handshake[c][1] = 764
        /\ handshake[c][4] = 2
        /\ pc[c] = "closed"
        /\ client[c].out = << VersionRefusalFrame >>
        /\ backend[o].open = "open"

\* The LoginDisconnect frames of a ban: "Banned! Reason: x" for the reason
\* "x" on record, and "Banned!".
BannedWithReasonFrame ==
    << 19, 0, 17, 66, 97, 110, 110, 101, 100, 33, 32, 82, 101, 97, 115, 111, 110, 58, 32, 120 >>
BannedFrame == << 9, 0, 7, 66, 97, 110, 110, 101, 100, 33 >>

\* C19: a connection whose LoginStart named a user with an active ban, the
\* name not online and the ban lookup answered, is closed; its client was
\* written exactly one frame, the LoginDisconnect "Banned! Reason: <reason>"
\* when the record has a reason and "Banned!" when it has none (nothing if
\* its socket had broken by then); no backend connection was attempted.
C19_BannedUserRefused ==
    \A c \in Conns :
        ( /\ "user_banned" \in hist[c].facts
          /\ "user_bans_failed" \notin hist[c].facts
          /\ "online" \notin hist[c].facts )
        => LET ban == user_bans[login_start[c][1]] IN
           /\ pc[c] = "closed"
           /\ client[c].out =
                 IF ~client[c].up THEN << >>
                 ELSE IF ban.has_reason THEN << BannedWithReasonFrame >>
                 ELSE << BannedFrame >>
           /\ ban.has_reason => ban.reason = ReasonText
           /\ "ban" \notin {hist[c].gates[i] : i \in DOMAIN hist[c].gates}
           /\ backend[c].open = "no"
           /\ backend[c].out = << >>

\* C19 witness: both connections named the user banned for good with a
\* reason, and each was refused with that reason.
C19_Witness ==
    \A c \in Conns :
        /\ "user_banned" \in hist[c].facts
        /\ pc[c] = "closed"
        /\ client[c].out = << BannedWithReasonFrame >>

\* C20: whenever handle_status takes a StatusRequest off a client that can
\* still be written to, whatever protocol version its handshake carried, it
\* writes one StatusResponse and goes on serving: version.protocol is the
\* handshake's protocol_version, players.max is 0, players.online is the
\* size of the online-player table at that moment and players.sample holds
\* one { id, name } per entry of the table, in some order.
C20_StatusAnswered ==
    [][\A c \in Conns :
        ( /\ pc[c] = "status"
          /\ client[c].up
          /\ client[c].inb = StatusRequestFrame
          /\ client'[c].inb = << >> )
        => /\ pc'[c] = "status"
           /\ \E order \in HashMapIter(online_players) :
                 client'[c].out = Append(client[c].out, encode_packet(
                     << 0 >> \o encode_string(ServerStatusJson(
                         handshake[c][1], 0, Cardinality(DOMAIN online_players),
                         [i \in DOMAIN order |->
                            [id |-> online_players[order[i]], name |-> order[i]]]))))
    ]_vars

\* The PingResponse to PingRequestFrame: packet id 1 and the same time.
PingResponseFrame == << 9, 1, 0, 0, 0, 0, 0, 0, 0, 42 >>

\* C21: on a Status connection, a PingRequest taken off a client that can be
\* written to is answered with the PingResponse of the same time and the
\* connection is closed; a StatusRequest is answered with one frame and the
\* loop goes on; the loop is left, for the closed state only, on a
\* PingRequest, at the end of the stream, on a frame that does not decode
\* or when the client cannot be written to.
C21_StatusLoop ==
    [][\A c \in Conns : pc[c] = "status" =>
        /\ ( client[c].inb = PingRequestFrame /\ client'[c].inb = << >> /\ client[c].up )
              => /\ client'[c].out = Append(client[c].out, PingResponseFrame)
                 /\ pc'[c] = "closed"
        /\ ( client[c].inb = StatusRequestFrame /\ client'[c].inb = << >> /\ client[c].up )
              => /\ Len(client'[c].out) = Len(client[c].out) + 1
                 /\ pc'[c] = "status"
        /\ pc'[c] # "status"
              => /\ pc'[c] = "closed"
                 /\ \/ client[c].inb = PingRequestFrame
                    \/ client[c].inb = << >> /\ client[c].eof
                    \/ client[c].inb \notin {PingRequestFrame, StatusRequestFrame}
                    \/ ~client[c].up
    ]_vars

\* The frames of Handshake { 765, "h", 25565, Login } and of
\* LoginStart { "A", 07..07 } without compression envelope: the length, the
\* packet id, the fields.
PlainHandshakeFrame == << 8, 0, 253, 5, 1, 104, 99, 221, 2 >>
PlainLoginStartFrame ==
    << 19, 0, 1, 65, 7, 7, 7, 7, 7, 7, 7, 7, 7, 7, 7, 7, 7, 7, 7, 7 >>

C23_FailedWriteEndsRelayer ==
    [][\A c \in Conns : pc[c] = "proxy" =>
        /\ ( hclient[c].pc \in {"inject", "forward"} /\ hclient'[c].pc # hclient[c].pc
              /\ ~backend[c].up )
              => pc'[c] = "teardown"
        /\ ( hserver[c].pc = "forward" /\ hserver'[c].pc # hserver[c].pc
              /\ ~client[c].up )
              => pc'[c] = "teardown"
    ]_vars

\* ------------------------------------------------------------- codec claims

\* The codec of a connection has neither a key nor a threshold.
CodecPlain(c) ==
    pc[c] = "codec" /\ server_codec[c].codec.crypt_key = << >>
                    /\ server_codec[c].codec.compression < 0

\* How many of the next_packet calls before call j returned a packet.
CodecYielded(c, j) == Cardinality({ i \in 1..(j - 1) : hist[c].dec[i].r = "ok" })

\* The frame of a packet: VarInt(len(S)), then S.
PlainFrame(packet) == var_int_encode(Len(packet.bytes)) \o packet.bytes

\* C24: without compression and without encryption, a next_packet call that
\* finds the whole frame of the next packet sent in the buffer returns that
\* packet and removes exactly that frame, so that the packets of several
\* frames come out in the order they were encoded, one for each call; once
\* every byte written is accepted and every packet sent is returned, the
\* receive buffer is empty.
C24_FramingRoundTrip ==
    \A c \in Conns : CodecPlain(c) =>
        /\ \A j \in 1..Len(hist[c].dec) :
             LET n == CodecYielded(c, j)
                 call == hist[c].dec[j]
             IN ( n < Len(hist[c].sent)
                  /\ Len(call.before) >= Len(PlainFrame(hist[c].sent[n + 1])) )
                => /\ call.r = "ok"
                   /\ call.p = hist[c].sent[n + 1].p
                   /\ call.after
                        = Seq0(call.before, Len(PlainFrame(hist[c].sent[n + 1])) + 1)
        /\ ( backend[c].inb = << >>
             /\ CodecYielded(c, Len(hist[c].dec) + 1) = Len(hist[c].sent) )
           => server_codec[c].codec.received_buf = << >>

\* Two different packets were encoded, their frames were accepted together
\* and two calls returned them in order, leaving an empty buffer.
C24_Witness ==
    \E c \in Conns :
        /\ CodecPlain(c)
        /\ Len(hist[c].sent) = 2 /\ hist[c].sent[1] # hist[c].sent[2]
        /\ hist[c].chunks = 1 /\ backend[c].inb = << >>
        /\ Len(hist[c].dec) = 2
        /\ hist[c].dec[1].r = "ok" /\ hist[c].dec[1].p = hist[c].sent[1].p
        /\ hist[c].dec[2].r = "ok" /\ hist[c].dec[2].p = hist[c].sent[2].p
        /\ server_codec[c].codec.received_buf = << >>

\* The envelope of a packet body S under threshold T: below T the length
\* len(S) + 1, VarInt(0) and S; from T on the length of what follows,
\* VarInt(len(S)) and the deflated S.
C25_Envelope(S, T) ==
    IF Len(S) < T
    THEN var_int_encode(Len(S) + 1) \o var_int_encode(0) \o S
    ELSE var_int_encode(Len(Deflate(S)) + Len(var_int_encode(Len(S))))
             \o var_int_encode(Len(S)) \o Deflate(S)

\* C25: with a threshold and no key, the bytes encode has written for the
\* packets sent are their envelopes one after the other and nothing else
\* (seen while no byte has been taken off the socket).
C25_CompressedLayout ==
    \A c \in Conns :
        ( pc[c] = "codec" /\ server_codec[c].codec.crypt_key = << >>
          /\ server_codec[c].codec.compression >= 0 /\ hist[c].chunks = 0 )
        => backend[c].inb
             = Flatten([i \in 1..Len(hist[c].sent) |->
                          C25_Envelope(hist[c].sent[i].bytes,
                                       server_codec[c].codec.compression)])

\* C26: with a key (and no threshold), however the ciphertext of the packets
\* sent is cut into accept calls, a next_packet call that finds as many
\* bytes as the frame of the next packet sent returns that packet: the
\* packets come out as the originals, in order.
C26_ChunkingInvariant ==
    \A c \in Conns :
        ( pc[c] = "codec" /\ server_codec[c].codec.crypt_key # << >>
          /\ server_codec[c].codec.compression < 0 )
        => \A j \in 1..Len(hist[c].dec) :
             LET n == CodecYielded(c, j)
                 call == hist[c].dec[j]
             IN ( n < Len(hist[c].sent)
                  /\ Len(call.before) >= Len(PlainFrame(hist[c].sent[n + 1])) )
                => call.r = "ok" /\ call.p = hist[c].sent[n + 1].p

\* C27: with or without a key (and no threshold), a next_packet call that
\* finds fewer bytes than the frame of the next packet sent, be it a part of
\* the length prefix or a part of the payload, returns Ok(None) and leaves
\* the receive buffer as it was; a call that finds the frame complete,
\* however many accept calls brought it, returns the packet.
C27_PartialFrame ==
    \A c \in Conns :
        ( pc[c] = "codec" /\ server_codec[c].codec.compression < 0 )
        => \A j \in 1..Len(hist[c].dec) :
             LET n == CodecYielded(c, j)
                 call == hist[c].dec[j]
             IN n < Len(hist[c].sent)
                => /\ Len(call.before) < Len(PlainFrame(hist[c].sent[n + 1]))
                      => call.r = "none" /\ call.after = call.before
                   /\ Len(call.before) >= Len(PlainFrame(hist[c].sent[n + 1]))
                      => call.r = "ok" /\ call.p = hist[c].sent[n + 1].p

\* ------------------------------------------------------------- VarInt claims

\* The 32-bit two's-complement value of the 7-bit groups of the bytes b
\* (at most five), the first group lowest: of the fifth group only the low
\* four bits fit, the highest of them being the sign.
C28_Value(b) ==
    LET Group(i) == IF i <= Len(b) THEN b[i] % 128 ELSE 0
        low == Group(1) + Group(2) * Pow2(7) + Group(3) * Pow2(14) + Group(4) * Pow2(21)
        top == Group(5) % 16
    IN IF top >= 8 THEN ((low + (top - 8) * Pow2(28)) - Pow2(30)) - Pow2(30)
       ELSE low + top * Pow2(28)

\* The index of the first byte of b with the continuation bit clear, 0 if
\* there is none.
C28_End(b) ==
    IF \E i \in 1..Len(b) : b[i] < 128
    THEN CHOOSE i \in 1..Len(b) : b[i] < 128 /\ \A k \in 1..(i - 1) : b[k] >= 128
    ELSE 0

\* C28: a read_var_i32 of an input whose first five bytes all carry the
\* continuation bit fails with VarIntTooLong, whether or not a byte follows
\* them; an input whose first byte without the continuation bit is among
\* the first five decodes to the 32-bit value of the groups up to it.
C28_VarIntDecode ==
    \A c \in Conns : \A j \in 1..Len(hist[c].dec) :
        pc[c] = "closed" =>
        LET call == hist[c].dec[j]
            end == C28_End(call.before)
        IN /\ ( Len(call.before) >= 5 /\ \A i \in 1..5 : call.before[i] >= 128 )
              => call.st = "toolong"
           /\ end \in 1..5
              => call.st = "ok" /\ call.v = C28_Value(SubSeq(call.before, 1, end))

\* ------------------------------------------------------------- ban store claims

\* The row of `key` in the table a logged call found had expired.
C29_Expired(call, key) == call.before[key].present /\ call.before[key].expiration = "passed"

\* C29: an expired row is absent for every caller of the repository:
\* is_banned returns None for its key and leaves no row of it, get_bans does
\* not list it, and remove_ban returns None for its key.
C29_ExpiredIsAbsent ==
    \A c \in Conns : \A j \in 1..Len(hist[c].dec) :
        pc[c] = "bans" =>
        LET call == hist[c].dec[j] IN
        /\ ( call.op = "is_banned" /\ C29_Expired(call, call.key) )
           => ~call.r.ban.present /\ ~call.r.table[call.key].present
        /\ call.op = "get_bans"
           => \A k \in DOMAIN call.before :
                 C29_Expired(call, k) => \A b \in call.r.bans : b[1] # k
        /\ ( call.op = "remove_ban" /\ C29_Expired(call, call.key) )
           => ~call.r.ban.present

\* The index of the last add_ban or remove_ban call on (t, key) before the
\* logged call j of connection c, 0 if there is none.
C30_Last(c, j, t, key) ==
    LET prior == { i \in 1..(j - 1) : /\ hist[c].dec[i].op \in {"add_ban", "remove_ban"}
                                      /\ hist[c].dec[i].t = t
                                      /\ hist[c].dec[i].key = key }
    IN IF prior = {} THEN 0 ELSE CHOOSE i \in prior : \A k \in prior : k <= i

\* The calls before call j on (t, key) leave a ban on the key.
C30_Added(c, j, t, key) ==
    C30_Last(c, j, t, key) # 0 /\ hist[c].dec[C30_Last(c, j, t, key)].op = "add_ban"

\* No add_ban logged by the connection carries an expiration.
C30_NoExpiration(c) ==
    \A i \in 1..Len(hist[c].dec) :
        hist[c].dec[i].op = "add_ban" => hist[c].dec[i].arg[1] = "none"

\* C30: in a sequence of calls with no expiration, is_banned returns a
\* record exactly when the last add_ban or remove_ban on the key was an
\* add_ban, and the record carries the reason of that add_ban; remove_ban
\* returns a record exactly when a row of the key existed before the call,
\* which is when the last such call was an add_ban; no INSERT meets a row of
\* its key, and get_bans lists exactly the keys whose last such call was an
\* add_ban.
C30_AddRemoveSequence ==
    \A c \in Conns : ( pc[c] = "bans" /\ C30_NoExpiration(c) ) =>
        \A j \in 1..Len(hist[c].dec) :
            LET call == hist[c].dec[j]
                last == C30_Last(c, j, call.t, call.key)
            IN /\ call.op = "is_banned"
                  => /\ call.r.ban.present <=> C30_Added(c, j, call.t, call.key)
                     /\ call.r.ban.present
                        => /\ call.r.ban.has_reason = hist[c].dec[last].arg[2]
                           /\ call.r.ban.reason = hist[c].dec[last].arg[3]
               /\ call.op = "remove_ban"
                  => /\ call.r.ban.present <=> call.before[call.key].present
                     /\ call.r.ban.present <=> C30_Added(c, j, call.t, call.key)
               /\ call.op = "add_ban" => ~call.r.dup
               /\ call.op = "get_bans"
                  => { b[1] : b \in call.r.bans }
                       = { k \in DOMAIN call.before : C30_Added(c, j, call.t, k) }

\* add_ban with one reason, add_ban of the same key with another reason,
\* then is_banned returning the second reason.
C30_Witness ==
    \E c \in Conns :
        /\ pc[c] = "bans" /\ C30_NoExpiration(c)
        /\ Len(hist[c].dec) = 3
        /\ hist[c].dec[1].op = "add_ban" /\ hist[c].dec[2].op = "add_ban"
        /\ hist[c].dec[3].op = "is_banned"
        /\ hist[c].dec[1].t = hist[c].dec[3].t /\ hist[c].dec[2].t = hist[c].dec[3].t
        /\ hist[c].dec[1].key = hist[c].dec[3].key /\ hist[c].dec[2].key = hist[c].dec[3].key
        /\ hist[c].dec[1].arg[3] = ReasonText /\ hist[c].dec[2].arg[3] = ReasonOther
        /\ hist[c].dec[2].r.sql = "UPDATE"
        /\ hist[c].dec[3].r.ban.present /\ hist[c].dec[3].r.ban.reason = ReasonOther

\* ------------------------------------------------------------- whitelist flag claims

\* The flag as IS_WHITELIST_ENABLED tells it, from the stored value: false
\* while no value was ever stored.
C31_Flag(w) == w.enabled = "true"

\* C31: a SET_WHITELIST_ENABLED that succeeds answers changed = (the flag
\* before the command = the value requested); an IS_WHITELIST_ENABLED that
\* succeeds reports the value of the last SET_WHITELIST_ENABLED that
\* succeeded before it, and false when there was none.
C31_SetWhitelistEnabled ==
    \A c \in Conns : pc[c] = "flag" =>
        \A j \in 1..Len(hist[c].dec) :
            LET call == hist[c].dec[j]
                sets == { i \in 1..(j - 1) : /\ hist[c].dec[i].op = "SET_WHITELIST_ENABLED"
                                             /\ hist[c].dec[i].r.st = "ok" }
                last == IF sets = {} THEN 0 ELSE CHOOSE i \in sets : \A k \in sets : k <= i
                flag == IF last = 0 THEN FALSE ELSE hist[c].dec[last].arg
            IN call.r.st = "ok" =>
                 /\ call.op = "SET_WHITELIST_ENABLED"
                    => /\ call.r.value = (flag = call.arg)
                       /\ C31_Flag(call.r.whitelist) = call.arg
                 /\ call.op = "IS_WHITELIST_ENABLED" => call.r.value = flag

\* The flag is set to true on a fresh database (changed = false), asked
\* for (true), and set to true again (changed = true).
C31_Witness ==
    \E c \in Conns :
        /\ pc[c] = "flag" /\ Len(hist[c].dec) = 3
        /\ \A j \in 1..3 : hist[c].dec[j].r.st = "ok"
        /\ hist[c].dec[1].op = "SET_WHITELIST_ENABLED" /\ hist[c].dec[1].arg
        /\ hist[c].dec[1].before.enabled = "absent" /\ ~hist[c].dec[1].r.value
        /\ hist[c].dec[2].op = "IS_WHITELIST_ENABLED" /\ hist[c].dec[2].r.value
        /\ hist[c].dec[3].op = "SET_WHITELIST_ENABLED" /\ hist[c].dec[3].arg
        /\ hist[c].dec[3].r.value


\* ------------------------------------------------------------- frame reader claims

\* C32: the frame read_packet returns with encode_length = true is, byte
\* for byte, the bytes the call consumed from the socket, length prefix
\* included, whatever the encoding of the length prefix.
C32_FrameIsBytesConsumed ==
    \A c \in Conns : pc[c] \in {"frame", "closed"} =>
        \A j \in 1..Len(hist[c].dec) :
            LET call == hist[c].dec[j]
            IN (call.encode_length /\ call.r.st = "some")
               => call.r.frame = SubSeq(call.before, 1, call.r.n)


\* ------------------------------------------------------------- frame decoder claims

\* The length prefix at the head of buf is unfinished: fewer than five
\* bytes, every one with the continuation bit.
C33_PrefixOpen(buf) == Len(buf) < 5 /\ \A i \in 1..Len(buf) : buf[i] >= 128

\* The length prefix at the head of buf runs past five bytes.
C33_PrefixTooLong(buf) == Len(buf) >= 5 /\ \A i \in 1..5 : buf[i] >= 128

\* The length prefix at the head of buf is finished within five bytes; its
\* value and the number of bytes it takes.
C33_Prefix(buf) == read_var_i32(buf, 1)

\* buf starts with a whole frame: a finished prefix of a length that is not
\* negative, and that many bytes after it.
C33_FullFrame(buf) ==
    /\ ~C33_PrefixOpen(buf) /\ ~C33_PrefixTooLong(buf)
    /\ C33_Prefix(buf).v >= 0
    /\ Len(buf) - (C33_Prefix(buf).pos - 1) >= C33_Prefix(buf).v

\* C33: next_packet returns Ok(None) only when the length prefix or the
\* payload is incomplete; a length prefix of more than five bytes, or a
\* negative length, is an error.
C33_NoneOnlyWhenIncomplete ==
    \A c \in Conns : pc[c] = "decode" =>
        \A j \in 1..Len(hist[c].dec) :
            LET call == hist[c].dec[j]
                buf == call.before.received_buf
                malformed == \/ C33_PrefixTooLong(buf)
                             \/ ~C33_PrefixOpen(buf) /\ C33_Prefix(buf).v < 0
            IN /\ malformed => call.r = "err"
               /\ call.r = "none" => ~malformed /\ ~C33_FullFrame(buf)

\* C34: when the receive buffer starts with a whole frame, a next_packet
\* that fails leaves the receive buffer as it was; one that succeeds
\* removes the H + L bytes of the frame and no more, and leaves the zlib
\* scratch buffer empty.
C34_BufferOnDecode ==
    \A c \in Conns : pc[c] = "decode" =>
        \A j \in 1..Len(hist[c].dec) :
            LET call == hist[c].dec[j]
                buf == call.before.received_buf
                H == C33_Prefix(buf).pos - 1
                L == C33_Prefix(buf).v
            IN C33_FullFrame(buf) =>
                 /\ call.r \in {"ok", "err"}
                 /\ call.r = "err" => call.after.received_buf = buf
                 /\ call.r = "ok" => /\ call.after.received_buf = Seq0(buf, H + L + 1)
                                     /\ Len(buf) = H + L + Len(call.after.received_buf)
                                     /\ call.after.compression_target = << >>

\* With compression, a frame is decoded and the bytes after it stay; the
\* next frame, inflated, is refused by the catalog and stays as well.
C34_Witness ==
    \E c \in Conns :
        /\ pc[c] = "decode" /\ Len(hist[c].dec) >= 2
        /\ hist[c].dec[1].before.compression >= 0
        /\ hist[c].dec[1].r = "ok"
        /\ hist[c].dec[1].after.received_buf = << 4, 2, 120, 9, 9 >>
        /\ hist[c].dec[2].r = "err"
        /\ hist[c].dec[2].after.received_buf = << 4, 2, 120, 9, 9 >>


\* ------------------------------------------------------------- concurrency claims

\* C35: two connections whose LoginStart carries the same username are never
\* both in the proxy loop with their backend connection open.
C35_OneLoginPerName ==
    \A c, d \in Conns :
        (/\ c # d
         /\ pc[c] = "proxy" /\ pc[d] = "proxy"
         /\ backend[c].open = "open" /\ backend[d].open = "open")
        => login_start[c][1] # login_start[d][1]


\* What a codec with the settings of pc_ and empty buffers holds.
C36_Fresh(pc_) == [pc_ EXCEPT !.codec = clone_with_settings(pc_.codec)]

\* C36: in the proxy loop, the packet decode_client or decode_server gives a
\* relayer is the decoding of the frame read in that iteration, and the
\* codec's receive buffer is empty after the call, also when the decoding
\* failed.
C36_DecodesTheFrameRead ==
    [][\A c \in Conns :
        /\ (hclient[c].pc = "decode" /\ hclient'[c].pc = "match")
              => /\ client_codec'[c].codec.received_buf = << >>
                 /\ hclient'[c].res.r = "ok"
                      => hclient'[c].res.p
                           = ClientPacketCodec_decode(C36_Fresh(client_codec[c]),
                                                      hclient[c].vec).p
        /\ (hserver[c].pc = "decode" /\ hserver'[c].pc = "match")
              => /\ server_codec'[c].codec.received_buf = << >>
                 /\ hserver'[c].res.r = "ok"
                      => hserver'[c].res.p
                           = ServerPacketCodec_decode(C36_Fresh(server_codec[c]),
                                                      hserver[c].vec).p
    ]_vars


\* The moves of a codec's protocol state the connection's life allows: the
\* set-up before the proxy loop, then one step forward at a time.
C37_Moves ==
    { << "Handshake", "Login" >>, << "Login", "Configuration" >>,
      << "Configuration", "Play" >> }

\* C37: the protocol state of either codec never moves backwards and never
\* skips a state: Configuration is entered from Login only, Play from
\* Configuration only, and Play is never left.
C37_StateOrder ==
    [][\A c \in Conns :
        /\ client_codec'[c].state # client_codec[c].state
              => << client_codec[c].state, client_codec'[c].state >> \in C37_Moves
        /\ server_codec'[c].state # server_codec[c].state
              => << server_codec[c].state, server_codec'[c].state >> \in C37_Moves
    ]_vars

\* Both codecs have reached Play while the connection is in the proxy loop.
C37_Witness ==
    \E c \in Conns :
        /\ pc[c] = "proxy"
        /\ client_codec[c].state = "Play"
        /\ server_codec[c].state = "Play"


\* C38: a command response written to the backend once the compression
\* threshold is set on both codecs is in the compressed format: the
\* envelope of the server-bound plugin message on basileia:proxy.
C38_InjectedEnveloped ==
    [][\A c \in Conns :
        ( /\ hclient[c].pc = "inject" /\ hclient'[c].pc # "inject"
          /\ server_codec[c].codec.compression >= 0
          /\ backend[c].up )
        => LastOf(backend'[c].out).bytes
             = C25_Envelope(encode_ServerBoundPluginMessage(BASILEIA_PROXY, hclient[c].msg),
                            server_codec[c].codec.compression)
    ]_vars


\* C39: a frame of the client is decoded by decode_client with the catalog
\* of the protocol state in which the client produced it.
C39_DecodedAsProduced ==
    [][\A c \in Conns :
        (pc[c] = "proxy" /\ hclient[c].pc = "decode" /\ hclient'[c].pc # "decode")
        => client_codec[c].state = client[c].made
    ]_vars


\* The requests the server relayer has diverted: those it has put on the
\* request channel and the one it is waiting to put there.
C40_Diverted(c) == Len(hist[c].div) + (IF hserver[c].pc = "send" THEN 1 ELSE 0)

\* C40: while the connection stays in the proxy loop, every diverted command
\* request is eventually followed by its response written to the backend
\* (the k-th request by the k-th response), and a server relayer that waits
\* to hand over a request is eventually back at its read.
C40_TasksNeverBlockForever ==
    \A c \in LiveConns :
        /\ \A k \in 1..MaxLiveRequests :
              (pc[c] = "proxy" /\ C40_Diverted(c) >= k)
                  ~> (pc[c] # "proxy" \/ Len(InjectedFrames(c)) >= k)
        /\ (pc[c] = "proxy" /\ hserver[c].pc = "send")
              ~> (pc[c] # "proxy" \/ hserver[c].pc = "read")

\* The server relayer waits on a full request channel, a fifth request in its
\* hand, while the first request has its response on the backend's socket.
C40_Witness ==
    \E c \in Conns :
        /\ pc[c] = "proxy"
        /\ hserver[c].pc = "send"
        /\ Len(request_ch[c]) = ChannelCapacity
        /\ Len(InjectedFrames(c)) = 1
        /\ InjectedFrames(c)[1] = ResponseFrame(hist[c].handled[1].response)
        /\ hist[c].handled[1].request = hist[c].div[1]

====
